---- MODULE Spec2Model ----
(***************************************************************************)
(* A model of RPChat: the SQLite conversation store (StorageManager), the  *)
(* configuration merge (ConfigManager), the chat-completion client         *)
(* (OpenAIAPIClient), the chat widget's request cycle (ChatWidget with     *)
(* UIUtils.run_async_task / AsyncWorker) and the voice handler's listen    *)
(* and speak workers (VoiceHandler).                                       *)
(*                                                                         *)
(* Each component has its own specification (SpecStore, SpecConfig, ...);  *)
(* the variables of the other components keep their initial values.        *)
(***************************************************************************)
EXTENDS Integers, Sequences, FiniteSets, TLC

VARIABLES
    \* ---- StorageManager (src/core/storage_manager.py) ----
    foreign_keys,    \* SQLite's foreign-key enforcement for the connection
    initialized,     \* StorageManager._initialized
    conversations,   \* table conversations: id -> [title, message_count]
    messages,        \* table messages, in rowid order
    nextRowId,       \* AUTOINCREMENT sequence of messages.id
    held,            \* a Conversation object a caller keeps (created or fetched)
    ret,             \* outcome of the last StorageManager call
    \* ---- ConfigManager (src/core/config_manager.py) ----
    template_file,   \* config.template.toml: a readable document, or missing
    config_file,     \* config.toml: a readable document, missing or invalid
    default_config,  \* ConfigManager._default_config
    config,          \* ConfigManager._config
    loaded,          \* what load_config returned: "not_called", "True", "False"
    \* ---- OpenAIAPIClient (src/core/api_client.py) ----
    api_request,     \* what the server did with the last request (status, body)
    api_result,      \* what chat_completion gave its caller (value or exception)
    \* ---- ChatWidget (src/ui/chat_widget.py, src/utils/ui_utils.py) ----
    api_client,            \* ChatWidget.api_client is set
    storage_manager,       \* ChatWidget.storage_manager is set
    current_conversation,  \* ChatWidget.current_conversation (a Conversation or None)
    conversation_history,  \* ChatWidget.conversation_history
    is_processing,         \* ChatWidget.is_processing
    send_enabled,          \* send_button.isEnabled()
    input_enabled,         \* message_input.isEnabled()
    status_label,          \* status_label.text()
    chat_display,          \* the messages shown in chat_display
    modal,                 \* open QMessageBox.critical dialogs, innermost last
    workers,               \* AsyncWorker threads that are running
    events,                \* finished/error signals queued to the GUI thread
    sends,                 \* history: one record per accepted send
    voice_button_enabled,  \* voice_button.isEnabled()
    speak_threads,         \* speak_worker threads that are running
    message_input,         \* message_input.text() when speech recognition set it
    \* ---- VoiceHandler (src/core/voice_handler.py) and its use by ChatWidget ----
    voice_handler,         \* ChatWidget.voice_handler is set
    recognition_enabled,   \* VoiceHandler.recognition_enabled
    tts_enabled,           \* VoiceHandler.tts_enabled
    recognizer,            \* VoiceHandler.recognizer is set
    microphone,            \* VoiceHandler.microphone is set
    tts_engine,            \* VoiceHandler.tts_engine is set
    is_listening,          \* VoiceHandler._is_listening
    is_speaking,           \* VoiceHandler._is_speaking
    listen_threads,        \* listen_worker threads that are running
    voice_button_checked,  \* voice_button.isChecked()
    voice_mode,            \* ChatWidget.voice_mode
    timers,                \* pending QTimer.singleShot(1000, _send_message)
    failed,                \* history: the speech failures that have happened
    tts_log,               \* history: on_tts_started / on_tts_finished calls made
    \* ---- MainWindow (src/ui/main_window.py) ----
    window_cleanup,        \* where MainWindow.cleanup is ("none": no window)
    \* ---- FishAudioEngine, Pyttsx3Engine (src/core/tts) ----
    engine,                \* the TTSEngine a program constructed, if any
    engine_is_speaking,    \* TTSEngine._is_speaking
    engine_threads,        \* the engine's speak_worker threads that are running
    engine_speak_thread,   \* FishAudioEngine.speak_thread: the thread's id, 0 for None
    engine_log,            \* history: speak calls accepted, callbacks made
    engine_cleanup,        \* where TTSEngine.cleanup is
    \* ---- SidebarWidget (src/ui/sidebar_widget.py) and its signals ----
    sidebar                \* storage_manager, the list, the selection, the slots
                           \* an emission has still to call; history: counts

storeVars == <<foreign_keys, initialized, conversations, messages, nextRowId, held, ret>>
cfgVars == <<template_file, config_file, default_config, config, loaded>>

apiVars == <<api_request, api_result>>

uiVars == <<is_processing, send_enabled, input_enabled, voice_button_enabled, status_label>>
chatVars ==
    <<api_client, storage_manager, current_conversation, conversation_history,
      uiVars, chat_display, modal, workers, events, sends, speak_threads,
      message_input>>
voiceVars ==
    <<voice_handler, recognition_enabled, tts_enabled, recognizer, microphone,
      tts_engine, is_listening, is_speaking, listen_threads, voice_button_checked,
      voice_mode, timers, failed, tts_log>>

engineVars ==
    <<engine, engine_is_speaking, engine_threads, engine_speak_thread, engine_log,
      engine_cleanup>>
otherVars == <<window_cleanup, engineVars, sidebar>>

vars == <<storeVars, cfgVars, apiVars, chatVars, voiceVars, otherVars>>

nonStoreVars == <<cfgVars, apiVars, chatVars, voiceVars, otherVars>>
nonCfgVars == <<storeVars, apiVars, chatVars, voiceVars, otherVars>>
nonApiVars == <<storeVars, cfgVars, chatVars, voiceVars, otherVars>>
nonChatVars == <<held, cfgVars, apiVars, voiceVars, otherVars>>

----------------------------------------------------------------------------
(* Bounds *)

MaxClock == 1        \* wall-clock readings are 0..MaxClock ticks
TicksPerSec == 2     \* ticks per second (stands for the 10^6 microseconds)
MaxMessages == 2     \* rows ever inserted into messages
MaxImport == 1       \* messages in an imported document
MaxSends == 1        \* sends the chat widget accepts
MaxPending == 1      \* conversations being opened or created at a time
MaxThreads == 2      \* listen_worker threads alive at a time
MaxTimers == 1       \* auto-send timers started by speech recognition
MaxSpeaks == 2       \* speak calls a TTS engine accepts
MaxLines == 3        \* lines of a streamed response
MaxEmits == 2        \* new-conversation requests and selections the user makes

(* Program constants *)

DefaultLimit == 100  \* get_messages(conversation_id, limit=100)

----------------------------------------------------------------------------
(* Values *)

NoneRec == [isNone |-> TRUE]

Clock == 0..MaxClock
Roles == {"user", "assistant"}
Contents == {1}      \* message texts are numbered
Titles == {"new", "t"}   \* "new" is the title new_conversation passes
ImportedTitle(t) == <<"[import] ", t>>   \* f"[...] {title}"

\* f"conv_{int(now.timestamp() * 1000000)}": one id per clock reading
ConvId(now) == now
ConvIds == {ConvId(t) : t \in Clock}

----------------------------------------------------------------------------
(* datetime.isoformat() / datetime.fromisoformat() and TEXT comparison.    *)
(* A timestamp is written as "S[.f]+00:00"; the fraction is omitted when   *)
(* it is zero.  Texts are sequences of character codes.                    *)

ChPlus == 43   \* '+'
ChDot == 46    \* '.'
ChZero == 48   \* '0'

isoformat(t) ==
    LET sec == t \div TicksPerSec
        frac == t % TicksPerSec
    IN  IF frac = 0
          THEN <<ChZero + sec, ChPlus>>
          ELSE <<ChZero + sec, ChDot, ChZero + frac, ChPlus>>

fromisoformat(s) ==
    LET sec == s[1] - ChZero
        frac == IF s[2] = ChDot THEN s[3] - ChZero ELSE 0
    IN  sec * TicksPerSec + frac

\* SQLite's BINARY collation on TEXT: memcmp, then the shorter text first
RECURSIVE TextLess(_, _)
TextLess(a, b) ==
    IF a = <<>> THEN b # <<>>
    ELSE IF b = <<>> THEN FALSE
    ELSE IF Head(a) # Head(b) THEN Head(a) < Head(b)
    ELSE TextLess(Tail(a), Tail(b))

----------------------------------------------------------------------------
(* StorageManager *)

Conversation(id, title, count) == [id |-> id, title |-> title, message_count |-> count]

StoredMessage(id, cid, role, content, ts, md) ==
    [id |-> id, conversation_id |-> cid, role |-> role, content |-> content,
     timestamp |-> ts, metadata |-> md]

Ret(op, arg, exc, value) == [op |-> op, arg |-> arg, exc |-> exc, value |-> value]

\* DELETE FROM conversations WHERE id = ?  -- ON DELETE CASCADE acts only
\* while foreign-key enforcement is on for the connection
RowsAfterDelete(cid) ==
    IF foreign_keys
      THEN SelectSeq(messages, LAMBDA m : m.conversation_id # cid)
      ELSE messages

\* UPDATE conversations SET message_count = message_count + 1 WHERE id = ?
CountBumped(convs, cid) ==
    IF cid \in DOMAIN convs
      THEN [convs EXCEPT ![cid].message_count = @ + 1]
      ELSE convs

\* INSERT INTO messages (conversation_id, role, content, timestamp)
MessageRow(rowid, cid, role, content, now) ==
    [id |-> rowid, conversation_id |-> cid, role |-> role, content |-> content,
     timestamp |-> isoformat(now), metadata |-> "{}"]

\* the FOREIGN KEY constraint of messages.conversation_id
ForeignKeyFails(convs, cid) == foreign_keys /\ cid \notin DOMAIN convs

\* content TEXT NOT NULL: a message whose content is None is refused
NullContent == 0

\* What a StorageManager call does: the tables after it, and what the caller
\* gets (the value returned, or the exception raised)
Db(convs, rows, rowid) == [conversations |-> convs, messages |-> rows, nextRowId |-> rowid]

Outcome(db, arg, exc, value) ==
    [initialized |-> TRUE, db |-> db, arg |-> arg, exc |-> exc, value |-> value]

Stored == Db(conversations, messages, nextRowId)

create_conversation(title, now) ==
    LET id == ConvId(now) IN
    IF id \in DOMAIN conversations
      THEN \* UNIQUE constraint failed: conversations.id
           Outcome(Stored, id, "IntegrityError", NoneRec)
      ELSE Outcome(Db(conversations @@ (id :> [title |-> title, message_count |-> 0]),
                      messages, nextRowId),
                   id, "None", Conversation(id, title, 0))

get_conversation(cid) ==
    Outcome(Stored, cid, "None",
            IF cid \in DOMAIN conversations
              THEN Conversation(cid, conversations[cid].title,
                                conversations[cid].message_count)
              ELSE NoneRec)

\* conversation is the caller's object; the caller may have changed its title
update_conversation(conversation) ==
    Outcome(Db(IF conversation.id \in DOMAIN conversations
                 THEN [conversations EXCEPT ![conversation.id] =
                         [title |-> conversation.title,
                          message_count |-> conversation.message_count]]
                 ELSE conversations,
               messages, nextRowId),
            conversation.id, "None", NoneRec)

delete_conversation(cid) ==
    Outcome(Db([c \in DOMAIN conversations \ {cid} |-> conversations[c]],
               RowsAfterDelete(cid), nextRowId),
            cid, "None", NoneRec)

\* INSERT INTO messages ... ; UPDATE conversations SET message_count =
\* message_count + 1 ...: the tables after one successful add_message
InsertMessage(db, cid, role, content, now) ==
    Db(CountBumped(db.conversations, cid),
       Append(db.messages, MessageRow(db.nextRowId, cid, role, content, now)),
       db.nextRowId + 1)

add_message(cid, role, content, now) ==
    IF ForeignKeyFails(conversations, cid) \/ content = NullContent
      THEN \* FOREIGN KEY constraint failed / NOT NULL constraint failed
           Outcome(Stored, cid, "IntegrityError", NoneRec)
      ELSE Outcome(InsertMessage(Stored, cid, role, content, now), cid, "None",
                   StoredMessage(nextRowId, cid, role, content, now, "None"))

\* for msg_data in messages_data: await self.add_message(conversation.id, ...)
\* msgs[i] = [role, content]; times[i] is the clock reading of the i-th call
RECURSIVE ImportMessages(_, _, _, _)
ImportMessages(db, cid, msgs, times) ==
    IF msgs = <<>> THEN db
    ELSE ImportMessages(InsertMessage(db, cid, Head(msgs).role, Head(msgs).content, Head(times)),
                        cid, Tail(msgs), Tail(times))

\* import_conversation does not call initialize(): before any other call
\* db_connection is None and the first execute raises AttributeError
import_conversation(title, msgs, now, times) ==
    LET id == ConvId(now)
        inserted == conversations @@ (id :> [title |-> ImportedTitle(title), message_count |-> 0])
        out == IF ~initialized
                 THEN Outcome(Stored, id, "AttributeError", NoneRec)
               ELSE IF id \in DOMAIN conversations
                 THEN Outcome(Stored, id, "IntegrityError", NoneRec)
               ELSE Outcome(ImportMessages(Db(inserted, messages, nextRowId), id, msgs, times),
                            id, "None", Conversation(id, ImportedTitle(title), 0))
    IN  [out EXCEPT !.initialized = initialized]

\* the call takes effect on the database
Commit(out) ==
    /\ initialized' = out.initialized
    /\ conversations' = out.db.conversations
    /\ messages' = out.db.messages
    /\ nextRowId' = out.db.nextRowId
    /\ UNCHANGED foreign_keys

\* a caller that keeps what the call gave it
Call(op, out) ==
    /\ Commit(out)
    /\ ret' = Ret(op, out.arg, out.exc, out.value)

----------------------------------------------------------------------------
(* get_messages: SELECT ... WHERE conversation_id = ? ORDER BY timestamp   *)
(* ASC LIMIT ?.  Rows with equal timestamps keep their rowid order.        *)

RECURSIVE InsertByTimestamp(_, _)
InsertByTimestamp(row, sorted) ==
    IF sorted = <<>> THEN <<row>>
    ELSE IF TextLess(row.timestamp, Head(sorted).timestamp)
      THEN <<row>> \o sorted
      ELSE <<Head(sorted)>> \o InsertByTimestamp(row, Tail(sorted))

RECURSIVE OrderByTimestamp(_)
OrderByTimestamp(rows) ==
    IF rows = <<>> THEN <<>>
    ELSE InsertByTimestamp(rows[Len(rows)], OrderByTimestamp(SubSeq(rows, 1, Len(rows) - 1)))

get_messages(cid, limit) ==
    LET rows == OrderByTimestamp(SelectSeq(messages, LAMBDA m : m.conversation_id = cid))
        n == IF Len(rows) < limit THEN Len(rows) ELSE limit
    IN  [i \in 1..n |->
            StoredMessage(rows[i].id, rows[i].conversation_id, rows[i].role,
                          rows[i].content, fromisoformat(rows[i].timestamp), "{}")]

----------------------------------------------------------------------------
(* ConfigManager: TOML documents and their merge.                          *)
(* A document is a table: a function from keys to values; a value is a     *)
(* scalar or a table (a section).                                          *)

Scalar(v) == [kind |-> "scalar", val |-> v]
Table(m) == [kind |-> "table", val |-> m]
IsTable(v) == v.kind = "table"      \* isinstance(value, dict)

TopKeys == {"api", "ui"}
SectionKeys == {"model", "timeout"}
ScalarValues == {1, 2}

Scalars == {Scalar(v) : v \in ScalarValues}
TablesOf(keys, vals) == UNION {[D -> vals] : D \in SUBSET keys}
Values == Scalars \cup {Table(m) : m \in TablesOf(SectionKeys, Scalars)}
Docs == TablesOf(TopKeys, Values)

\* _get_fallback_config(): the built-in defaults
FallbackConfig ==
    [k \in TopKeys |-> Table([j \in SectionKeys |-> Scalar(1)])]

merge_configs_shallow(default, user) ==
    [k \in (DOMAIN default) \cup (DOMAIN user) |->
        IF k \in DOMAIN user THEN user[k] ELSE default[k]]

\* merged = default.copy(); for key, value in user.items(): recurse when both
\* sides are dicts, else merged[key] = value
RECURSIVE merge_configs(_, _)
merge_configs(default, user) ==
    [k \in (DOMAIN default) \cup (DOMAIN user) |->
        IF k \in DOMAIN user
          THEN IF k \in DOMAIN default /\ IsTable(default[k]) /\ IsTable(user[k])
                 THEN Table(merge_configs(default[k].val, user[k].val))
                 ELSE user[k]
          ELSE default[k]]

\* a file on disk: state is "ok" (doc is its parsed content), "missing" or
\* "invalid" (toml.load raises)
File(doc) == [state |-> "ok", doc |-> doc]
MissingFile == [state |-> "missing", doc |-> <<>>]
InvalidFile == [state |-> "invalid", doc |-> <<>>]

\* _load_default_config(): the template if it can be read, else the fallback
LoadedDefault(template) ==
    IF template.state = "ok" THEN template.doc ELSE FallbackConfig

\* ConfigManager.get(key): follow the dotted key; KeyError/TypeError -> default
Absent == [kind |-> "absent", val |-> 0]
RECURSIVE get(_, _)
get(doc, path) ==
    IF Head(path) \notin DOMAIN doc THEN Absent
    ELSE IF Len(path) = 1 THEN doc[Head(path)]
    ELSE IF ~IsTable(doc[Head(path)]) THEN Absent
    ELSE get(doc[Head(path)].val, Tail(path))

\* load_config(): the new values of the ConfigManager's state.
\* created: whether _create_default_config managed to write config.toml
load_config(created) ==
    LET dflt == LoadedDefault(template_file)
        file == IF config_file.state # "missing" THEN config_file
                ELSE IF ~created THEN MissingFile
                ELSE File(dflt)   \* copy of the template, or dump of the fallback
    IN
    /\ default_config' = dflt
    /\ config_file' = file
    /\ IF file.state = "ok"
         THEN /\ config' = merge_configs(dflt, file.doc)
              /\ loaded' = "True"
         ELSE \* open() or toml.load raised: fall back to the defaults
              /\ config' = dflt
              /\ loaded' = "False"
    /\ UNCHANGED template_file

----------------------------------------------------------------------------
(* OpenAIAPIClient.chat_completion.                                        *)
(* A request is answered by a transport outcome, a status and a body; the  *)
(* body is described by the shape of each part _parse_chat_response reads. *)

Transports == {"ok", "ClientError", "TimeoutError"}
Statuses == {200, 401, 500}
\* response.json(): a body that is not served as JSON (ContentTypeError), that
\* does not parse (JSONDecodeError), a JSON value that is no object, an object
JsonKinds == {"not_json", "invalid", "nonobject", "object"}
\* response_data['choices']: key absent, null, [], [choice, ...]
ChoicesKinds == {"absent", "null", "empty", "list"}
\* choices[0]: not an object, an object
ChoiceKinds == {"nonobject", "object"}
\* choice['message']: key absent, not an object, an object
MessageKinds == {"absent", "nonobject", "object"}
\* message['content']: key absent, null, a string
ContentKinds == {"absent", "null", "text"}
Presence == {"absent", "present"}

Requests ==
    [transport : Transports, status : Statuses, json : JsonKinds,
     choices : ChoicesKinds, choice : ChoiceKinds, message : MessageKinds,
     content : ContentKinds, model : Presence, usage : Presence,
     finish_reason : Presence]

\* exception classes: everything below derives from Exception;
\* ContentTypeError is an aiohttp.ClientError
ClientErrors == {"ClientError", "ContentTypeError"}
Exceptions ==
    ClientErrors \cup {"TimeoutError", "JSONDecodeError", "KeyError", "IndexError",
                       "TypeError", "APIClientError"}

Raise(exc) ==
    [exc |-> exc, content |-> "None", model |-> "None", usage |-> "None",
     finish_reason |-> "None"]

ChatResponse(content, model, usage, finish_reason) ==
    [exc |-> "None", content |-> content, model |-> model, usage |-> usage,
     finish_reason |-> finish_reason]

\* the body of _parse_chat_response's try block
ParsedResponse(r) ==
    IF r.json = "nonobject" THEN Raise("TypeError")        \* response_data['choices']
    ELSE IF r.choices = "absent" THEN Raise("KeyError")
    ELSE IF r.choices = "null" THEN Raise("TypeError")     \* ...[0]
    ELSE IF r.choices = "empty" THEN Raise("IndexError")
    ELSE IF r.choice = "nonobject" THEN Raise("TypeError") \* choice['message']
    ELSE IF r.message = "absent" THEN Raise("KeyError")
    ELSE IF r.message = "nonobject" THEN Raise("TypeError") \* message['content']
    ELSE IF r.content = "absent" THEN Raise("KeyError")
    ELSE IF r.model = "absent" THEN Raise("KeyError")      \* response_data['model']
    ELSE ChatResponse(IF r.content = "null" THEN "None" ELSE "text",
                      "model",
                      IF r.usage = "present" THEN "usage" ELSE "{}",
                      IF r.finish_reason = "present" THEN "stop" ELSE "unknown")

\* except (KeyError, IndexError): raise APIClientError
parse_chat_response(r) ==
    LET out == ParsedResponse(r) IN
    IF out.exc \in {"KeyError", "IndexError"} THEN Raise("APIClientError") ELSE out

\* the body of chat_completion's try block
Posted(r) ==
    IF r.transport # "ok" THEN Raise(r.transport)          \* session.post
    ELSE IF r.status # 200 THEN Raise("APIClientError")
    ELSE IF r.json = "not_json" THEN Raise("ContentTypeError")  \* response.json()
    ELSE IF r.json = "invalid" THEN Raise("JSONDecodeError")
    ELSE parse_chat_response(r)

chat_completion_uncaught(r) ==
    LET out == Posted(r) IN
    IF out.exc \in ClientErrors THEN Raise("APIClientError") ELSE out

\* except aiohttp.ClientError: raise APIClientError
\* except Exception: raise APIClientError
chat_completion(r) ==
    LET out == Posted(r) IN
    IF out.exc \in ClientErrors THEN Raise("APIClientError")
    ELSE IF out.exc \in Exceptions THEN Raise("APIClientError")
    ELSE out

----------------------------------------------------------------------------
(* chat_completion_stream: the response is read line by line.              *)

\* a line of the body, after decode and strip:
\*   "other"          does not start with 'data: '
\*   "done"           data: [DONE]
\*   "invalid"        the payload is not JSON
\*   "number"         the payload is JSON, a number, true, false or null
\*   "list"           the payload is a JSON list
\*   "no_choices"     an object without 'choices', or with null or []
\*   "choice_null"    choices[0] is null
\*   "delta_absent"   choices[0] has no 'delta'
\*   "delta_null"     choices[0]['delta'] is null
\*   "content_null"   the delta has no 'content', or null
\*   "content_empty"  the delta's content is ""
\*   "text"           the delta's content is a non-empty string
\*   "dropped"        no line: the connection broke (aiohttp.ClientError)
LineKinds ==
    {"other", "done", "invalid", "number", "list", "no_choices", "choice_null",
     "delta_absent", "delta_null", "content_null", "content_empty", "text", "dropped"}
StreamTexts == {1, 2}
StreamLine(kind, content) == [kind |-> kind, content |-> content]
StreamLines ==
    {StreamLine(k, NullContent) : k \in LineKinds \ {"text"}}
        \cup {StreamLine("text", c) : c \in StreamTexts}
StreamResponses ==
    [status : {200, 500},
     lines : UNION {[1..n -> StreamLines] : n \in 0..MaxLines}]

Streamed(yielded, exc) == [yielded |-> yielded, exc |-> exc]

\* the exception the body of the loop raises for a line, if any
LineRaises(line) ==
    CASE line.kind = "dropped" -> "ClientError"
      [] line.kind = "number" -> "TypeError"              \* 'choices' in chunk_data
      [] line.kind = "choice_null" -> "AttributeError"    \* None.get('delta', {})
      [] line.kind = "delta_null" -> "AttributeError"     \* None.get('content', '')
      [] OTHER -> "None"

\* the async for loop on the lines left, with what was yielded so far
RECURSIVE ReadLines(_, _)
ReadLines(lines, yielded) ==
    IF lines = <<>> THEN Streamed(yielded, "None")
    ELSE LET line == Head(lines) IN
         IF LineRaises(line) # "None" THEN Streamed(yielded, LineRaises(line))
         ELSE IF line.kind = "done" THEN Streamed(yielded, "None")        \* break
         ELSE IF line.kind = "text"
           THEN ReadLines(Tail(lines), Append(yielded, line.content))     \* yield
         ELSE ReadLines(Tail(lines), yielded)

\* chat_completion_stream for the response r: what the caller is given
\* before the generator ends or raises
chat_completion_stream(r) ==
    LET out == IF r.status # 200
                 THEN Streamed(<<>>, "APIClientError")
                 ELSE ReadLines(r.lines, <<>>)
    IN  \* except aiohttp.ClientError, except Exception: raise APIClientError
        IF out.exc = "None" THEN out ELSE Streamed(out.yielded, "APIClientError")

----------------------------------------------------------------------------
(* UIUtils.run_async_task / AsyncWorker.                                   *)
(* A task runs on a thread of its own (workers).  When the coroutine ends, *)
(* AsyncWorker.run emits finished(result) or error(text); the signal is    *)
(* queued to the GUI thread (events) and delivered there to the callback   *)
(* that run_async_task connected.                                          *)

\* run_async_task(parent, coro_func, on_finished, on_error, *args);
\* send is the number of the accepted send a chat request belongs to
Task(func, args, on_finished, on_error, send) ==
    [func |-> func, args |-> args, on_finished |-> on_finished,
     on_error |-> on_error, send |-> send]

\* a signal of the worker that ran task, as queued for the GUI thread
Signal(name, slot, value, task) ==
    [signal |-> name, slot |-> slot, value |-> value, worker |-> task]

run_silent(task, exc, result) ==
    IF exc = "None"
      THEN Signal("finished", task.on_finished, result, task)
      ELSE Signal("error", "None", [error |-> exc], task)

\* AsyncWorker.run: finished.emit(result), or error.emit(str(e)) on Exception
run(task, exc, result) ==
    IF exc = "None"
      THEN Signal("finished", task.on_finished, result, task)
      ELSE Signal("error", task.on_error, [error |-> exc], task)

Without(seq, i) == SubSeq(seq, 1, i - 1) \o SubSeq(seq, i + 1, Len(seq))

----------------------------------------------------------------------------
(* ChatWidget *)

ChatMessage(role, content) == [role |-> role, content |-> content]
Shown(sender, content) == [sender |-> sender, content |-> content]

\* what the server does with the widget's requests: a reply with text, a
\* reply whose content is null, no reply before the timeout
TextAnswer ==
    [transport |-> "ok", status |-> 200, json |-> "object", choices |-> "list",
     choice |-> "object", message |-> "object", content |-> "text",
     model |-> "present", usage |-> "present", finish_reason |-> "present"]
Answers ==
    {TextAnswer, [TextAnswer EXCEPT !.content = "null"],
     [TextAnswer EXCEPT !.transport = "TimeoutError"]}

\* the reply to the n-th send carries text n, or None
ReplyContent(n, response) == IF response.content = "None" THEN NullContent ELSE n

\* TextProcessor.generate_conversation_title
generate_conversation_title(first_message) ==
    IF first_message = NullContent THEN "new" ELSE "t"

\* _set_processing_ui(processing)
set_processing_ui(processing) ==
    /\ status_label' = (IF processing THEN "thinking" ELSE "ready")
    /\ send_enabled' = ~processing
    /\ voice_button_enabled' = (~processing /\ voice_handler)
    /\ input_enabled' = ~processing

\* _show_error(message): the status label, then a modal QMessageBox.critical;
\* what follows in the caller runs when the dialog is dismissed
show_error(continuation) ==
    /\ status_label' = "error"
    /\ modal' = Append(modal, continuation)

\* _clear_conversation_ui
clear_conversation_ui ==
    /\ conversation_history' = <<>>
    /\ chat_display' = <<>>
    /\ status_label' = "new conversation"

\* the input field is empty
NoText == NullContent

\* VoiceHandler.speak(content) for each message in turn, called from one handler of
\* the GUI thread: _is_speaking is set by the speak_worker thread, not here
speak(texts) ==
    IF ~tts_enabled \/ ~tts_engine \/ is_speaking
      THEN speak_threads
      ELSE speak_threads \o [i \in DOMAIN texts |-> [pc |-> "start", text |-> texts[i].content]]

\* _add_message(sender, content, timestamp) for the messages given, as far as
\* speech goes: the replies are spoken in voice mode
add_message_speaks(shown) ==
    speak_threads' =
        IF voice_mode /\ voice_handler
          THEN speak(SelectSeq([i \in DOMAIN shown |-> shown[i]],
                               LAMBDA m : m.sender = "assistant"))
          ELSE speak_threads

\* a handler that neither speaks nor touches the input field
quiet == UNCHANGED <<speak_threads, message_input>>

handle_ai_request_after_save(message, n) ==
    LET user_message == ChatMessage("user", message)
        save == IF storage_manager /\ current_conversation # NoneRec
                  THEN <<Task("add_message",
                              [conversation_id |-> current_conversation.id,
                               message |-> user_message],
                              "None", "on_storage_error", n)>>
                  ELSE <<>>
        request == Task("chat_completion", [messages |-> "conversation_history"],
                        "on_ai_response_received",
                        "on_ai_request_error", n)
    IN
    /\ is_processing' = TRUE
    /\ set_processing_ui(TRUE)
    /\ conversation_history' = Append(conversation_history, user_message)
    /\ workers' = workers \o (IF save = <<>> THEN <<request>> ELSE save)

\* _handle_ai_request(message), entered with is_processing False
handle_ai_request(message, n) ==
    LET user_message == ChatMessage("user", message)
        save == IF storage_manager /\ current_conversation # NoneRec
                  THEN <<Task("add_message",
                              [conversation_id |-> current_conversation.id,
                               message |-> user_message],
                              "None", "on_storage_error", n)>>
                  ELSE <<>>
        request == Task("chat_completion", [messages |-> "conversation_history"],
                        "on_ai_response_received",
                        "on_ai_request_error", n)
    IN
    /\ is_processing' = TRUE
    /\ set_processing_ui(TRUE)
    /\ conversation_history' = Append(conversation_history, user_message)
    /\ workers' = workers \o save \o <<request>>

send_message_unguarded(message, n) ==
    /\ chat_display' =
           chat_display \o <<Shown("user", message)>>
               \o (IF api_client THEN <<>> ELSE <<Shown("system", NullContent)>>)
    /\ sends' = Append(sends, [conversation |-> current_conversation,
                               requested |-> api_client,
                               response |-> 0, error |-> 0,
                               reply |-> NullContent, storage_errors |-> 0])
    /\ IF api_client
         THEN handle_ai_request(message, n)
         ELSE UNCHANGED <<conversation_history, uiVars, workers>>
    /\ message_input' = NoText
    /\ UNCHANGED <<api_client, storage_manager, current_conversation, modal,
                   events, speak_threads>>

\* _send_message with text message in the input field
send_message(message, n) ==
    IF is_processing
      THEN UNCHANGED chatVars
      ELSE /\ chat_display' =
                  chat_display \o <<Shown("user", message)>>
                      \o (IF api_client THEN <<>> ELSE <<Shown("system", NullContent)>>)
           /\ sends' = Append(sends, [conversation |-> current_conversation,
                                      requested |-> api_client,
                                      response |-> 0, error |-> 0,
                                      reply |-> NullContent, storage_errors |-> 0])
           /\ IF api_client
                THEN handle_ai_request(message, n)
                ELSE \* _show_api_unavailable_message
                     UNCHANGED <<conversation_history, uiVars, workers>>
           /\ message_input' = NoText
           /\ UNCHANGED <<api_client, storage_manager, current_conversation, modal,
                          events, speak_threads>>

\* _update_conversation_title with the history and current conversation
\* given: the conversation (retitled) and the task started, if any
FirstUserMessages(history) == SelectSeq(history, LAMBDA m : m.role = "user")

update_conversation_title(history, conversation) ==
    IF conversation = NoneRec \/ Len(history) < 1 \/ FirstUserMessages(history) = <<>>
      THEN [conversation |-> conversation, tasks |-> <<>>]
      ELSE LET new_title == generate_conversation_title(Head(FirstUserMessages(history)).content)
               titled == [conversation EXCEPT !.title = new_title]
           IN  [conversation |-> titled,
                tasks |-> IF storage_manager
                            THEN <<Task("update_conversation", [conversation |-> titled],
                                        "conversation_updated", "on_storage_error", 0)>>
                            ELSE <<>>]

\* _on_ai_response_received(response) for the request of send n
on_ai_response_received(response, n) ==
    LET ai_message == ChatMessage("assistant", response.content)
        history == Append(conversation_history, ai_message)
        save == IF storage_manager /\ current_conversation # NoneRec
                  THEN <<Task("add_message",
                              [conversation_id |-> current_conversation.id,
                               message |-> ai_message],
                              "on_message_saved", "on_storage_error", n)>>
                  ELSE <<>>
        titled == IF Len(history) = 2 /\ current_conversation # NoneRec
                    THEN update_conversation_title(history, current_conversation)
                    ELSE [conversation |-> current_conversation, tasks |-> <<>>]
    IN
    /\ conversation_history' = history
    /\ chat_display' = Append(chat_display, Shown("assistant", response.content))
    /\ workers' = workers \o save \o titled.tasks
    /\ current_conversation' = titled.conversation
    /\ sends' = [sends EXCEPT ![n].response = @ + 1, ![n].reply = response.content]
    /\ IF response.content = NullContent
         THEN \* response.content[:50] raises TypeError: except, then finally
              \* once the dialog is dismissed
              /\ show_error("request")
              /\ UNCHANGED <<is_processing, send_enabled, input_enabled, voice_button_enabled>>
         ELSE \* finally
              /\ set_processing_ui(FALSE)
              /\ is_processing' = FALSE
              /\ UNCHANGED modal
    /\ add_message_speaks(<<Shown("assistant", response.content)>>)
    /\ UNCHANGED <<api_client, storage_manager, message_input>>

on_ai_request_error_retry(error_message, n) ==
    /\ sends' = [sends EXCEPT ![n].error = @ + 1]
    /\ show_error("request")
    /\ workers' = Append(workers,
           Task("chat_completion", [messages |-> "conversation_history"],
                "on_ai_response_received", "on_ai_request_error", n))
    /\ UNCHANGED <<api_client, storage_manager, current_conversation,
                   conversation_history, chat_display,
                   is_processing, send_enabled, input_enabled, voice_button_enabled>>
    /\ quiet

\* _on_ai_request_error(error_message) for the request of send n; the two
\* statements after _show_error run when the dialog is dismissed
on_ai_request_error(error_message, n) ==
    /\ sends' = [sends EXCEPT ![n].error = @ + 1]
    /\ show_error("request")
    /\ UNCHANGED <<api_client, storage_manager, current_conversation,
                   conversation_history, chat_display, workers,
                   is_processing, send_enabled, input_enabled, voice_button_enabled>>
    /\ quiet

\* new_conversation
new_conversation ==
    /\ IF current_conversation # NoneRec /\ storage_manager
         THEN /\ workers' = Append(workers,
                    Task("create_conversation", [title |-> "new"],
                         "on_new_conversation_created", "on_storage_error", 0))
              /\ UNCHANGED <<conversation_history, chat_display, status_label>>
         ELSE /\ clear_conversation_ui
              /\ UNCHANGED workers
    /\ UNCHANGED <<api_client, storage_manager, current_conversation, is_processing,
                   send_enabled, input_enabled, voice_button_enabled, modal, events, sends>>
    /\ quiet

\* _on_new_conversation_created(conversation)
on_new_conversation_created(conversation) ==
    /\ current_conversation' = conversation
    /\ clear_conversation_ui
    /\ UNCHANGED <<api_client, storage_manager, is_processing, send_enabled,
                   input_enabled, voice_button_enabled, modal, workers, sends>>
    /\ quiet

\* load_conversation(conversation_id)
load_conversation(conversation_id) ==
    IF ~storage_manager
      THEN UNCHANGED chatVars
      ELSE /\ set_processing_ui(TRUE)
           /\ workers' = Append(workers,
                 Task("load_conversation_async", [conversation_id |-> conversation_id],
                      "on_conversation_loaded", "on_conversation_load_error", 0))
           /\ UNCHANGED <<api_client, storage_manager, current_conversation,
                          conversation_history, is_processing, chat_display, modal,
                          events, sends>>
           /\ quiet

\* _on_conversation_loaded(data); the label set in the try block is replaced
\* by _set_processing_ui(False) in finally
on_conversation_loaded(data) ==
    /\ current_conversation' = data.conversation
    /\ chat_display' = [i \in DOMAIN data.messages |->
                           Shown(data.messages[i].role, data.messages[i].content)]
    /\ conversation_history' = [i \in DOMAIN data.messages |->
                           ChatMessage(data.messages[i].role, data.messages[i].content)]
    /\ set_processing_ui(FALSE)
    /\ add_message_speaks([i \in DOMAIN data.messages |->
                              Shown(data.messages[i].role, data.messages[i].content)])
    /\ UNCHANGED <<api_client, storage_manager, is_processing, modal, workers, sends,
                   message_input>>

\* _on_conversation_load_error(error); _set_processing_ui(False) runs when
\* the dialog is dismissed
on_conversation_load_error(error) ==
    /\ show_error("load")
    /\ UNCHANGED <<api_client, storage_manager, current_conversation,
                   conversation_history, is_processing, send_enabled, input_enabled,
                   voice_button_enabled, chat_display, workers, sends>>
    /\ quiet

\* _on_storage_error(error) for a task of send n (0: of no send): the error
\* is logged; sends records it
on_storage_error(error, n) ==
    /\ sends' = IF n \in DOMAIN sends
                  THEN [sends EXCEPT ![n].storage_errors = @ + 1]
                  ELSE sends
    /\ UNCHANGED <<api_client, storage_manager, current_conversation,
                   conversation_history, uiVars, chat_display, modal, workers>>
    /\ quiet

\* callbacks that only log, or only emit a signal of the widget:
\* _on_message_saved, conversation_updated.emit
log_only ==
    /\ UNCHANGED <<api_client, storage_manager, current_conversation,
                   conversation_history, uiVars, chat_display, modal, workers, sends>>
    /\ quiet

\* the rest of a handler whose _show_error dialog was dismissed
after_show_error(continuation) ==
    /\ set_processing_ui(FALSE)
    /\ is_processing' = (IF continuation = "request" THEN FALSE ELSE is_processing)

----------------------------------------------------------------------------
(* VoiceHandler and the widget's use of it.                                *)

\* no callback of the voice handler has been made
NoCallbacks == [started |-> 0, finished |-> 0]

\* how a part of the speech subsystem comes up when the widget is built:
\* switched off in the configuration, working, or failing at a step
RecognitionSetups == {"disabled", "ok", "fail_microphone", "fail_calibration"}
TtsSetups == {"disabled", "ok", "fail_init", "fail_property"}

\* _init_speech_recognition raised VoiceRecognitionError
RecognitionFails(rec) == rec \in {"fail_microphone", "fail_calibration"}
\* _init_tts_engine was reached and raised TTSError
TtsFails(rec, tts) == ~RecognitionFails(rec) /\ tts \in {"fail_init", "fail_property"}

\* ChatWidget._init_voice_handler with VoiceHandler.initialize: created is
\* whether VoiceHandler(config) returned
init_voice_handler(created, rec, tts) ==
    LET raised == RecognitionFails(rec) \/ TtsFails(rec, tts) IN
    /\ voice_handler = created
    /\ recognition_enabled = (created /\ rec # "disabled")
    /\ tts_enabled = (created /\ tts # "disabled")
    /\ recognizer = (created /\ rec # "disabled")           \* sr.Recognizer()
    /\ microphone = (created /\ rec \in {"ok", "fail_calibration"})
    /\ tts_engine = (created /\ ~RecognitionFails(rec) /\ tts \in {"ok", "fail_property"})
    /\ voice_button_enabled =
          (/\ created
           /\ ~raised
           /\ ~(rec = "disabled" /\ tts = "disabled"))
    /\ tts_log = NoCallbacks
    /\ failed = IF ~created THEN {}
                ELSE (IF RecognitionFails(rec) THEN {"recognition_init"} ELSE {})
                     \cup (IF TtsFails(rec, tts) THEN {"tts_init"} ELSE {})
    /\ voice_button_checked = FALSE
    /\ voice_mode = FALSE
    /\ is_listening = FALSE
    /\ is_speaking = FALSE
    /\ listen_threads = <<>>
    /\ speak_threads = <<>>
    /\ message_input = NoText
    /\ timers = 0

\* the text speech recognition returns
RecognizedText == MaxSends + 1

\* the microphone's stream is open: a listen_worker is inside
\* `with self.microphone as source`
MicrophoneHeld == \E i \in DOMAIN listen_threads : listen_threads[i] # "start"

\* VoiceHandler.start_listening
start_listening ==
    IF ~recognition_enabled \/ ~recognizer \/ ~microphone \/ is_listening
      THEN UNCHANGED <<is_listening, listen_threads>>
      ELSE /\ is_listening' = TRUE
           /\ listen_threads' = Append(listen_threads, "start")

\* VoiceHandler.stop_listening
stop_listening ==
    /\ is_listening' = FALSE
    /\ UNCHANGED listen_threads

\* _toggle_voice_input after a click on the voice button, which checks or
\* unchecks it: _start_voice_input or _stop_voice_input
toggle_voice_input ==
    /\ voice_button_checked' = ~voice_button_checked
    /\ IF ~voice_button_checked
         THEN start_listening /\ status_label' = "listening"
         ELSE stop_listening /\ status_label' = "ready"

\* listen_worker of thread i: one step
\*   "start"   before `with self.microphone as source`
\*   "loop"    at `while self._is_listening`
\*   "listen"  inside recognizer.listen
\*   "google"  inside recognize_google (_recognize_audio)
\*   "sphinx"  inside recognize_sphinx, after recognize_google raised RequestError
ListenOutcomes == {"timeout", "audio", "exception"}
RecognizeOutcomes == {"recognized", "unknown", "request_error", "exception"}

listen_worker(i) ==
    LET pc == listen_threads[i]
        goto(next) == listen_threads' = [listen_threads EXCEPT ![i] = next]
        exit == listen_threads' = Without(listen_threads, i)
        same == UNCHANGED <<status_label, message_input, timers>>
        on_speech_error ==
            /\ status_label' = "speech error"
            /\ UNCHANGED <<message_input, timers>>
        on_speech_recognized ==
            /\ timers < MaxTimers
            /\ status_label' = "recognized"
            /\ message_input' = RecognizedText
            /\ timers' = timers + 1
    IN
    CASE pc = "start" ->
           \* Microphone.__enter__ asserts that its stream is not open yet, and
           \* opening the device may fail: the outer except clears the flag
           \E opened \in BOOLEAN :
               IF MicrophoneHeld \/ ~opened
                 THEN is_listening' = FALSE /\ exit /\ same
                 ELSE goto("loop") /\ UNCHANGED is_listening /\ same
      [] pc = "loop" ->
           /\ IF is_listening THEN goto("listen") ELSE exit
           /\ UNCHANGED is_listening /\ same
      [] pc = "listen" ->
           \E outcome \in ListenOutcomes :
               /\ UNCHANGED is_listening
               /\ (CASE outcome = "timeout" ->      \* sr.WaitTimeoutError: continue
                          goto("loop") /\ same
                     [] outcome = "exception" ->    \* except Exception: break
                          exit /\ on_speech_error
                     [] outcome = "audio" ->
                          /\ IF is_listening THEN goto("google") ELSE exit
                          /\ same)
      [] pc = "google" ->
           \E outcome \in RecognizeOutcomes :
               /\ UNCHANGED is_listening
               /\ (CASE outcome = "recognized" -> goto("loop") /\ on_speech_recognized
                     [] outcome = "unknown" -> goto("loop") /\ on_speech_error
                     [] outcome = "request_error" -> goto("sphinx") /\ same
                     [] outcome = "exception" -> exit /\ on_speech_error)
      [] pc = "sphinx" ->
           \* a bare except turns every failure into sr.RequestError
           \E outcome \in {"recognized", "request_error"} :
               /\ UNCHANGED is_listening
               /\ goto("loop")
               /\ IF outcome = "recognized" THEN on_speech_recognized ELSE on_speech_error

\* speak_worker of thread i: one step
\*   "start"    before self._is_speaking = True
\*   "playing"  inside say / runAndWait
speak_worker(i) ==
    LET thread == speak_threads[i] IN
    IF thread.pc = "start"
      THEN /\ is_speaking' = TRUE
           /\ status_label' = "speaking"                  \* on_tts_started
           /\ tts_log' = [tts_log EXCEPT !.started = @ + 1]
           /\ speak_threads' = [speak_threads EXCEPT ![i].pc = "playing"]
           /\ UNCHANGED failed
      ELSE /\ \E played \in BOOLEAN :
                IF played /\ thread.text # NullContent     \* text[:50]
                  THEN /\ status_label' = "ready"         \* on_tts_finished
                       /\ tts_log' = [tts_log EXCEPT !.finished = @ + 1]
                       /\ UNCHANGED failed
                  ELSE \* except Exception: logged
                       /\ failed' = failed \cup {"tts_playback"}
                       /\ UNCHANGED <<status_label, tts_log>>
           /\ is_speaking' = FALSE                        \* finally
           /\ speak_threads' = Without(speak_threads, i)

----------------------------------------------------------------------------
(* FishAudioEngine and Pyttsx3Engine (src/core/tts), after initialize().   *)
(* speak is called with async_mode=True, from the program's main thread.   *)

Engines == {"fish", "pyttsx3"}

\* a speak_worker thread: its id, where it is, the playback it waits for
\* ("none", "running", "killed"), and whether stop_speaking was called
\* during its playback
\*   "start"             before self._is_speaking = True
\*   "synth"             fish: session.tts and the temporary file
\*   "play1".."play3"    fish: subprocess.run of aplay -D, aplay, mpv
\*   "playing"           pyttsx3: say / runAndWait
EngineThread(id) == [id |-> id, pc |-> "start", process |-> "none", stopped |-> FALSE]

Playing(thread) == thread.pc \in {"play1", "play2", "play3", "playing"}

\* speak(text): the guard reads _is_speaking, which the worker sets
engine_speak ==
    /\ IF engine_is_speaking
         THEN UNCHANGED <<engine_threads, engine_speak_thread, engine_log>>
         ELSE LET id == engine_log.speaks + 1 IN
              /\ engine_threads' = Append(engine_threads, EngineThread(id))
              /\ engine_speak_thread' = (IF engine = "fish" THEN id ELSE engine_speak_thread)
              /\ engine_log' = [engine_log EXCEPT !.speaks = id, !.stopped = FALSE]
    /\ UNCHANGED engine_is_speaking

\* what a playback process, or synthesis, comes to
PlayOutcomes == {"ok", "CalledProcessError", "TimeoutExpired", "FileNotFoundError"}

\* the number of the method a thread is trying
Method(pc) ==
    CASE pc = "play1" -> 1
      [] pc = "play2" -> 2
      [] pc = "play3" -> 3
      [] OTHER -> 0

\* the player after play: aplay -D, then aplay, then mpv, then none
NextPlayer(pc) ==
    CASE pc = "play1" -> "play2"
      [] pc = "play2" -> "play3"
      [] OTHER -> "none"

\* speak_worker of thread i: one step
engine_speak_worker(i) ==
    LET thread == engine_threads[i]
        \* finally: os.remove(tmp_file) if there is one, the flag, on_tts_finished
        finally(log) ==
            /\ engine_is_speaking' = FALSE
            /\ engine_log' = [log EXCEPT !.finished = @ + 1,
                                         !.tmp_files = @ - (IF Method(thread.pc) > 0
                                                              THEN 1 ELSE 0)]
            /\ engine_threads' = Without(engine_threads, i)
        \* the playback is over with this outcome of the method tried last;
        \* reported: "all playback methods failed" was logged
        played(outcome, reported) ==
            finally([engine_log EXCEPT !.last = [tried |-> Method(thread.pc),
                                                 outcome |-> outcome,
                                                 all_failed |-> reported]])
        play(player) ==
            /\ engine_threads' = [engine_threads EXCEPT ![i].pc = player,
                                                         ![i].process = "running"]
            /\ engine_log' = [engine_log EXCEPT !.tmp_files =
                                  @ + (IF thread.pc = "synth" THEN 1 ELSE 0)]
            /\ UNCHANGED engine_is_speaking
    IN
    CASE thread.pc = "start" ->
           /\ engine_is_speaking' = TRUE
           /\ engine_log' = [engine_log EXCEPT !.started = @ + 1]     \* on_tts_started
           /\ IF engine = "fish"
                THEN engine_threads' = [engine_threads EXCEPT ![i].pc = "synth"]
                ELSE engine_threads' = [engine_threads EXCEPT ![i].pc = "playing",
                                                              ![i].process = "running"]
      [] thread.pc = "synth" ->
           \E synthesized \in BOOLEAN :
               IF synthesized THEN play("play1") ELSE finally(engine_log)
      [] thread.pc = "playing" ->
           \* runAndWait returns or raises
           finally(engine_log)
      [] OTHER ->
           \E outcome \in PlayOutcomes :
               /\ thread.process = "killed" => outcome = "CalledProcessError"
               /\ (CASE outcome = "ok" -> played(outcome, FALSE)
                     [] outcome = "CalledProcessError" ->
                          IF NextPlayer(thread.pc) = "none"
                            THEN played(outcome, TRUE)
                            ELSE play(NextPlayer(thread.pc))
                     [] outcome = "TimeoutExpired" ->
                          \* caught for the first player only
                          IF thread.pc = "play1"
                            THEN play("play2")
                            ELSE played(outcome, FALSE)
                     [] outcome = "FileNotFoundError" ->
                          \* caught by the outer except Exception only
                          played(outcome, FALSE))

\* the playback processes are killed (pkill aplay, pkill mpv; engine.stop())
Killed(threads) ==
    [i \in DOMAIN threads |->
        IF Playing(threads[i])
          THEN [threads[i] EXCEPT !.process = "killed", !.stopped = TRUE]
          ELSE threads[i]]

\* stop_speaking
engine_stop_speaking ==
    /\ engine_threads' = Killed(engine_threads)
    /\ engine_is_speaking' = (IF engine = "fish" THEN FALSE ELSE engine_is_speaking)
    /\ engine_log' = [engine_log EXCEPT !.stopped =
                          @ \/ \E i \in DOMAIN engine_threads : Playing(engine_threads[i])]

\* the engine's speak_thread is alive
SpeakThreadAlive ==
    \E i \in DOMAIN engine_threads : engine_threads[i].id = engine_speak_thread

\* cleanup, one step: fish calls stop_speaking, then joins speak_thread for
\* at most a second; pyttsx3 logs
engine_cleanup_step ==
    CASE engine = "fish" /\ engine_cleanup = "idle" ->
           /\ engine_stop_speaking
           /\ engine_cleanup' = (IF SpeakThreadAlive THEN "join" ELSE "done")
      [] engine = "fish" /\ engine_cleanup = "join" ->
           \* the thread ended, or the timeout passed
           /\ engine_cleanup' = "done"
           /\ UNCHANGED <<engine_threads, engine_is_speaking, engine_log>>
      [] engine = "pyttsx3" /\ engine_cleanup = "idle" ->
           /\ engine_cleanup' = "done"
           /\ UNCHANGED <<engine_threads, engine_is_speaking, engine_log>>

----------------------------------------------------------------------------
(* MainWindow.cleanup, on the GUI thread, from closeEvent.                 *)

\* ChatWidget.cleanup: stop_listening, stop_speaking (the engine's stop may
\* raise), VoiceHandler.cleanup with its half-second sleep, the buttons
chat_widget_cleanup ==
    /\ IF voice_handler
         THEN /\ is_listening' = FALSE
              /\ is_speaking' \in (IF tts_engine THEN {FALSE, is_speaking} ELSE {is_speaking})
              /\ tts_engine' = FALSE
         ELSE UNCHANGED <<is_listening, is_speaking, tts_engine>>
    /\ send_enabled' = TRUE
    /\ input_enabled' = TRUE
    /\ voice_button_enabled' = TRUE

chat_widget_untouched ==
    UNCHANGED <<is_listening, is_speaking, tts_engine, send_enabled, input_enabled,
                voice_button_enabled>>

window_cleanup_wait ==
    CASE window_cleanup = "chat_widget" ->
           /\ workers = <<>> /\ listen_threads = <<>> /\ speak_threads = <<>>
           /\ chat_widget_cleanup /\ window_cleanup' = "sidebar_widget"
      [] window_cleanup = "sidebar_widget" ->
           chat_widget_untouched /\ window_cleanup' = "voice_handler"
      [] window_cleanup = "voice_handler" ->
           chat_widget_untouched /\ window_cleanup' = "storage_manager"
      [] window_cleanup = "storage_manager" ->
           chat_widget_untouched /\ window_cleanup' = "children"
      [] window_cleanup = "children" ->
           chat_widget_cleanup /\ window_cleanup' = "done"

\* MainWindow.cleanup, one step: the chat widget, the sidebar, the window's
\* own (never initialized) voice handler, the storage manager, then every
\* child widget that has a cleanup method once more
window_cleanup_step ==
    CASE window_cleanup = "chat_widget" ->
           chat_widget_cleanup /\ window_cleanup' = "sidebar_widget"
      [] window_cleanup = "sidebar_widget" ->
           chat_widget_untouched /\ window_cleanup' = "voice_handler"
      [] window_cleanup = "voice_handler" ->
           chat_widget_untouched /\ window_cleanup' = "storage_manager"
      [] window_cleanup = "storage_manager" ->
           chat_widget_untouched /\ window_cleanup' = "children"
      [] window_cleanup = "children" ->
           chat_widget_cleanup /\ window_cleanup' = "done"

----------------------------------------------------------------------------
(* Start states of the components *)

StoreStart ==
    /\ initialized = FALSE
    /\ conversations = <<>>
    /\ messages = <<>>
    /\ nextRowId = 1
    /\ held = NoneRec
    /\ ret = Ret("init", -1, "None", NoneRec)

StoreIdle == foreign_keys = FALSE /\ StoreStart

ConfigStart ==
    /\ default_config = <<>>
    /\ config = <<>>
    /\ loaded = "not_called"

ConfigIdle ==
    /\ template_file = MissingFile
    /\ config_file = MissingFile
    /\ ConfigStart

NoRequest ==
    [transport |-> "none", status |-> 0, json |-> "invalid", choices |-> "absent",
     choice |-> "nonobject", message |-> "absent", content |-> "absent",
     model |-> "absent", usage |-> "absent", finish_reason |-> "absent"]

ChatStart ==
    /\ current_conversation = NoneRec
    /\ conversation_history = <<>>
    /\ is_processing = FALSE
    /\ send_enabled = TRUE
    /\ input_enabled = TRUE
    /\ status_label = "ready"
    /\ chat_display = <<>>
    /\ modal = <<>>
    /\ workers = <<>>
    /\ events = <<>>
    /\ sends = <<>>

ChatIdle == api_client = FALSE /\ storage_manager = FALSE /\ ChatStart

\* no voice handler, no speech
VoiceIdle ==
    /\ voice_handler = FALSE
    /\ recognition_enabled = FALSE
    /\ tts_enabled = FALSE
    /\ recognizer = FALSE
    /\ microphone = FALSE
    /\ tts_engine = FALSE
    /\ voice_button_enabled = FALSE
    /\ voice_button_checked = FALSE
    /\ voice_mode = FALSE
    /\ is_listening = FALSE
    /\ is_speaking = FALSE
    /\ listen_threads = <<>>
    /\ speak_threads = <<>>
    /\ message_input = NoText
    /\ timers = 0
    /\ failed = {}
    /\ tts_log = NoCallbacks

ApiIdle ==
    /\ api_request = NoRequest
    /\ api_result = Raise("not_called")

\* no TTSEngine object
NoLog ==
    [speaks |-> 0, started |-> 0, finished |-> 0, stopped |-> FALSE,
     tmp_files |-> 0, last |-> [tried |-> 0, outcome |-> "none", all_failed |-> FALSE]]
EngineStart ==
    /\ engine_is_speaking = FALSE
    /\ engine_threads = <<>>
    /\ engine_speak_thread = 0
    /\ engine_log = NoLog
    /\ engine_cleanup = "idle"
EngineIdle == engine = "none" /\ EngineStart

\* item.data(UserRole) of no item; self.current_conversation_id = None
NoId == 0 - 1

\* SidebarWidget.__init__ with _init_storage succeeding or not, once
\* _load_conversations has returned
SidebarWidget(storage) ==
    [storage_manager |-> storage, list |-> <<>>, current_conversation_id |-> NoId,
     pending |-> <<>>,
     new_requests |-> 0, new_calls |-> 0, creates |-> 0,
     selected |-> 0, load_calls |-> 0,
     confirmed |-> {}, deleted |-> {}]

SidebarIdle == sidebar = SidebarWidget(FALSE)

\* the main window is open; a program without a window
WindowOpen == window_cleanup = "idle"
NoWindow == window_cleanup = "none"

----------------------------------------------------------------------------
(* The store on its own: a caller issuing StorageManager calls *)

InitStore ==
    /\ EngineIdle
    /\ SidebarIdle
    /\ WindowOpen
    /\ foreign_keys \in BOOLEAN   \* never set by the code: the SQLite build's default
    /\ StoreStart
    /\ ConfigIdle
    /\ ApiIdle
    /\ ChatIdle
    /\ VoiceIdle

ImportDocs ==
    UNION {[1..n -> [role : Roles, content : Contents]] : n \in 0..MaxImport}

CreateConversation ==
    \E title \in Titles, now \in Clock :
        /\ Call("create_conversation", create_conversation(title, now))
        /\ held' = IF ret'.exc = "None" THEN ret'.value ELSE held
        /\ UNCHANGED nonStoreVars

GetConversation ==
    \E cid \in ConvIds :
        /\ Call("get_conversation", get_conversation(cid))
        /\ held' = ret'.value
        /\ UNCHANGED nonStoreVars

UpdateConversation ==
    /\ held # NoneRec
    /\ \E title \in Titles :
        LET conversation == [held EXCEPT !.title = title] IN
        /\ Call("update_conversation", update_conversation(conversation))
        /\ held' = conversation
        /\ UNCHANGED nonStoreVars

DeleteConversation ==
    \E cid \in ConvIds :
        /\ Call("delete_conversation", delete_conversation(cid))
        /\ UNCHANGED <<held, nonStoreVars>>

AddMessage ==
    /\ nextRowId <= MaxMessages
    /\ \E cid \in ConvIds, role \in Roles, content \in Contents, now \in Clock :
        /\ Call("add_message", add_message(cid, role, content, now))
        /\ UNCHANGED <<held, nonStoreVars>>

ImportConversation ==
    \E title \in Titles, msgs \in ImportDocs, now \in Clock :
        /\ nextRowId + Len(msgs) <= MaxMessages + 1
        /\ \E times \in [1..Len(msgs) -> Clock] :
            /\ Call("import_conversation", import_conversation(title, msgs, now, times))
            /\ held' = IF ret'.exc = "None" THEN ret'.value ELSE held
            /\ UNCHANGED nonStoreVars

NextStore ==
    \/ CreateConversation
    \/ GetConversation
    \/ UpdateConversation
    \/ DeleteConversation
    \/ AddMessage
    \/ ImportConversation

SpecStore == InitStore /\ [][NextStore]_vars

\* a caller that deletes nothing
NextCount ==
    \/ CreateConversation
    \/ GetConversation
    \/ UpdateConversation
    \/ AddMessage
    \/ ImportConversation

SpecCount == InitStore /\ [][NextCount]_vars

----------------------------------------------------------------------------
(* The configuration manager on its own: the two files hold any documents *)

InitConfig ==
    /\ EngineIdle
    /\ SidebarIdle
    /\ WindowOpen
    /\ template_file \in {File(d) : d \in Docs} \cup {MissingFile}
    /\ config_file \in {File(d) : d \in Docs} \cup {MissingFile, InvalidFile}
    /\ ConfigStart
    /\ StoreIdle
    /\ ApiIdle
    /\ ChatIdle
    /\ VoiceIdle

LoadConfig ==
    /\ loaded = "not_called"
    /\ \E created \in BOOLEAN : load_config(created)
    /\ UNCHANGED nonCfgVars

NextConfig == LoadConfig

SpecConfig == InitConfig /\ [][NextConfig]_vars

----------------------------------------------------------------------------
(* The API client on its own: one call, answered in any way *)

InitApi ==
    /\ EngineIdle
    /\ SidebarIdle
    /\ WindowOpen
    /\ api_request \in Requests
    /\ api_result = Raise("not_called")
    /\ StoreIdle
    /\ ConfigIdle
    /\ ChatIdle
    /\ VoiceIdle

ChatCompletion ==
    /\ api_result = Raise("not_called")
    /\ api_result' = chat_completion(api_request)
    /\ UNCHANGED <<api_request, nonApiVars>>

NextApi == ChatCompletion

SpecApi == InitApi /\ [][NextApi]_vars

----------------------------------------------------------------------------
(* chat_completion_stream consumed to its end, for every response within   *)
(* the bounds.                                                             *)

InitStream ==
    /\ EngineIdle
    /\ SidebarIdle
    /\ WindowOpen
    /\ api_request \in StreamResponses
    /\ api_result = Streamed(<<>>, "not_called")
    /\ StoreIdle
    /\ ConfigIdle
    /\ ChatIdle
    /\ VoiceIdle

ChatCompletionStream ==
    /\ api_result.exc = "not_called"
    /\ api_result' = chat_completion_stream(api_request)
    /\ UNCHANGED <<api_request, nonApiVars>>

NextStream == ChatCompletionStream

SpecStream == InitStream /\ [][NextStream]_vars

----------------------------------------------------------------------------
(* The chat widget in use: the user sends messages, opens and creates      *)
(* conversations; worker threads end in any order; the GUI thread delivers *)
(* the queued signals in order, also while an error dialog is open.        *)

SessionTick == MaxClock

\* the database file may hold a conversation of an earlier session
InitChat ==
    /\ EngineIdle
    /\ SidebarIdle
    /\ WindowOpen
    /\ foreign_keys \in BOOLEAN
    /\ initialized = FALSE
    /\ conversations \in {<<>>, ConvId(0) :> [title |-> "t", message_count |-> 0]}
    /\ messages = <<>>
    /\ nextRowId = 1
    /\ held = NoneRec
    /\ ret = Ret("init", -1, "None", NoneRec)
    /\ api_client = TRUE        \* MainWindow passes the client it constructed
    /\ storage_manager \in BOOLEAN   \* _init_storage may have failed
    /\ ChatStart
    /\ VoiceIdle
    /\ ConfigIdle
    /\ ApiIdle

\* Enter in the input field or a click on the send button
SendMessage ==
    /\ modal = <<>>
    /\ send_enabled \/ input_enabled
    /\ Len(sends) < MaxSends
    /\ send_message(Len(sends) + 1, Len(sends) + 1)
    /\ UNCHANGED <<storeVars, nonChatVars>>

\* tasks of new_conversation and load_conversation that are running or
\* whose signal is still queued
Opening ==
    LET funcs == {"create_conversation", "load_conversation_async"} IN
    Cardinality({i \in DOMAIN workers : workers[i].func \in funcs})
        + Cardinality({i \in DOMAIN events : events[i].worker.func \in funcs})

NewConversation ==
    /\ modal = <<>>
    /\ Opening < MaxPending
    /\ new_conversation
    /\ UNCHANGED <<storeVars, nonChatVars>>

LoadConversation ==
    /\ modal = <<>>
    /\ Opening < MaxPending
    /\ \E conversation_id \in ConvIds : load_conversation(conversation_id)
    /\ UNCHANGED <<storeVars, nonChatVars>>

\* the thread of workers[i] runs its coroutine to the end and emits
Emit(i, exc, result) ==
    /\ events' = Append(events, run(workers[i], exc, result))
    /\ workers' = Without(workers, i)

\* _load_conversation_async(conversation_id)
load_conversation_async(conversation_id) ==
    LET got == get_conversation(conversation_id) IN
    IF got.value = NoneRec
      THEN [got EXCEPT !.exc = "ValueError"]
      ELSE [got EXCEPT !.value = [conversation |-> got.value,
                                  messages |-> get_messages(conversation_id, DefaultLimit)]]

\* a StorageManager coroutine, given the clock reading it makes
Coroutine(task, now) ==
    CASE task.func = "add_message" ->
           \* the messages of a session are written within one clock tick
           add_message(task.args.conversation_id, task.args.message.role,
                       task.args.message.content, SessionTick)
      [] task.func = "update_conversation" ->
           update_conversation(task.args.conversation)
      [] task.func = "create_conversation" ->
           create_conversation(task.args.title, now)
      [] task.func = "load_conversation_async" ->
           load_conversation_async(task.args.conversation_id)

\* what the database file does to a statement: it runs, or SQLite raises
\* (database is locked, disk I/O error)
StorageFaults == {"None", "OperationalError"}

StorageWorker(i) ==
    /\ workers[i].func # "chat_completion"
    /\ \E now \in Clock, fault \in StorageFaults :
         LET out == Coroutine(workers[i], now) IN
         IF fault = "None"
           THEN Commit(out) /\ Emit(i, out.exc, out.value)
           ELSE /\ Emit(i, fault, NoneRec)
                /\ UNCHANGED <<foreign_keys, initialized, conversations, messages,
                               nextRowId>>
    /\ UNCHANGED ret

ChatWorker(i) ==
    LET task == workers[i] IN
    /\ task.func = "chat_completion"
    /\ \E answer \in Answers :
         LET out == chat_completion(answer) IN
         Emit(i, out.exc, [content |-> ReplyContent(task.send, out)])
    /\ UNCHANGED <<foreign_keys, initialized, conversations, messages, nextRowId, ret>>

\* a worker thread touches nothing of the widget
WorkerFrame ==
    /\ UNCHANGED <<api_client, storage_manager, current_conversation,
                   conversation_history, uiVars, chat_display, modal, sends>>
    /\ quiet
    /\ UNCHANGED nonChatVars

WorkerRun ==
    /\ \E i \in DOMAIN workers : StorageWorker(i) \/ ChatWorker(i)
    /\ WorkerFrame

ChatWorkerEnds ==
    /\ \E i \in DOMAIN workers : ChatWorker(i)
    /\ WorkerFrame

\* the GUI thread takes the next queued signal: on_worker_done, then the
\* callback connected to it
DeliverEvent ==
    /\ events # <<>>
    /\ LET event == Head(events) IN
         CASE event.slot = "on_ai_response_received" ->
                on_ai_response_received(event.value, event.worker.send)
           [] event.slot = "on_ai_request_error" ->
                on_ai_request_error(event.value, event.worker.send)
           [] event.slot = "on_new_conversation_created" ->
                on_new_conversation_created(event.value)
           [] event.slot = "on_conversation_loaded" ->
                on_conversation_loaded(event.value)
           [] event.slot = "on_conversation_load_error" ->
                on_conversation_load_error(event.value)
           [] event.slot = "on_storage_error" ->
                on_storage_error(event.value, event.worker.send)
           [] OTHER -> log_only
    /\ events' = Tail(events)
    /\ UNCHANGED <<storeVars, nonChatVars>>

\* the user closes the innermost error dialog
DismissDialog ==
    /\ modal # <<>>
    /\ after_show_error(modal[Len(modal)])
    /\ modal' = SubSeq(modal, 1, Len(modal) - 1)
    /\ UNCHANGED <<api_client, storage_manager, current_conversation,
                   conversation_history, chat_display, workers, events, sends>>
    /\ quiet
    /\ UNCHANGED <<storeVars, nonChatVars>>

NextChat ==
    \/ SendMessage
    \/ NewConversation
    \/ LoadConversation
    \/ WorkerRun
    \/ DeliverEvent
    \/ DismissDialog

SpecChat == InitChat /\ [][NextChat]_vars

\* the request's thread ends (answer or timeout), the event loop runs, the
\* user closes error dialogs
FairSpecChat ==
    /\ SpecChat
    /\ WF_vars(ChatWorkerEnds)
    /\ WF_vars(DeliverEvent)
    /\ WF_vars(DismissDialog)

----------------------------------------------------------------------------
(* The voice button and the listen_worker threads: the user clicks the     *)
(* button at any time, each thread advances at its own pace, and the       *)
(* recogniser hears anything.                                              *)

\* what the voice actions leave alone
VoiceFrame ==
    /\ UNCHANGED <<storeVars, cfgVars, apiVars, otherVars>>
    /\ UNCHANGED <<api_client, storage_manager, current_conversation,
                   conversation_history, is_processing, send_enabled, input_enabled,
                   voice_button_enabled, chat_display, modal, workers, events, sends>>
    /\ UNCHANGED <<voice_handler, recognition_enabled, tts_enabled, recognizer,
                   microphone, tts_engine>>

InitListen ==
    /\ EngineIdle
    /\ SidebarIdle
    /\ WindowOpen
    /\ \E tts \in {"disabled", "ok"} : init_voice_handler(TRUE, "ok", tts)
    /\ api_client = FALSE
    /\ storage_manager = FALSE
    /\ ChatStart
    /\ StoreIdle
    /\ ConfigIdle
    /\ ApiIdle

ToggleVoiceInput ==
    /\ voice_button_enabled
    /\ voice_handler
    /\ modal = <<>>
    /\ voice_button_checked \/ Len(listen_threads) < MaxThreads
    /\ toggle_voice_input
    /\ UNCHANGED <<is_speaking, speak_threads, voice_mode, message_input, timers, failed, tts_log>>
    /\ VoiceFrame

ListenWorker ==
    /\ \E i \in DOMAIN listen_threads : listen_worker(i)
    /\ UNCHANGED <<is_speaking, speak_threads, voice_mode, voice_button_checked, failed, tts_log>>
    /\ VoiceFrame

NextListen ==
    \/ ToggleVoiceInput
    \/ ListenWorker

SpecListen == InitListen /\ [][NextListen]_vars

----------------------------------------------------------------------------
(* The widget with its voice handler, however the speech subsystem came    *)
(* up: text chat without a store, voice mode, spoken replies.              *)

InitVoice ==
    /\ EngineIdle
    /\ SidebarIdle
    /\ WindowOpen
    /\ \E created \in BOOLEAN, rec \in RecognitionSetups, tts \in TtsSetups :
          init_voice_handler(created, rec, tts)
    /\ api_client = TRUE
    /\ storage_manager = FALSE
    /\ ChatStart
    /\ StoreIdle
    /\ ConfigIdle
    /\ ApiIdle

\* set_voice_mode(checked) from the menu
SetVoiceMode ==
    /\ modal = <<>>
    /\ voice_mode' = ~voice_mode
    /\ UNCHANGED <<is_listening, listen_threads, is_speaking, speak_threads,
                   voice_button_checked, message_input, timers, failed, tts_log, status_label>>
    /\ VoiceFrame

SpeakWorker ==
    /\ \E i \in DOMAIN speak_threads : speak_worker(i)
    /\ UNCHANGED <<is_listening, listen_threads, voice_mode, voice_button_checked,
                   message_input, timers>>
    /\ VoiceFrame

NextVoice ==
    \/ SendMessage
    \/ WorkerRun
    \/ DeliverEvent
    \/ DismissDialog
    \/ SetVoiceMode
    \/ SpeakWorker
    \/ ToggleVoiceInput
    \/ ListenWorker

SpecVoice == InitVoice /\ [][NextVoice]_vars

----------------------------------------------------------------------------
(* A chat with a store and a working microphone: a conversation of an      *)
(* earlier session is opened, a message is sent, the store and the server  *)
(* may fail, and the user dictates.                                        *)

InitRetry ==
    /\ EngineIdle
    /\ SidebarIdle
    /\ WindowOpen
    /\ foreign_keys = FALSE
    /\ initialized = FALSE
    /\ conversations = ConvId(0) :> [title |-> "t", message_count |-> 0]
    /\ messages = <<>>
    /\ nextRowId = 1
    /\ held = NoneRec
    /\ ret = Ret("init", -1, "None", NoneRec)
    /\ api_client = TRUE
    /\ storage_manager = TRUE
    /\ ChatStart
    /\ init_voice_handler(TRUE, "ok", "disabled")
    /\ ConfigIdle
    /\ ApiIdle

\* the user clicks the voice button once, to dictate: _start_voice_input
StartDictation ==
    /\ ~voice_button_checked
    /\ listen_threads = <<>>
    /\ ToggleVoiceInput

NextRetry ==
    \/ SendMessage
    \/ LoadConversation
    \/ WorkerRun
    \/ DeliverEvent
    \/ DismissDialog
    \/ StartDictation
    \/ ListenWorker

SpecRetry == InitRetry /\ [][NextRetry]_vars

----------------------------------------------------------------------------
(* A program that drives a TTS engine: it speaks, stops and cleans up from *)
(* its main thread while the speak_worker threads run.                     *)

InitEngine ==
    /\ engine \in Engines
    /\ EngineStart
    /\ SidebarIdle
    /\ NoWindow
    /\ StoreIdle
    /\ ConfigIdle
    /\ ApiIdle
    /\ ChatIdle
    /\ VoiceIdle

EngineFrame ==
    UNCHANGED <<engine, storeVars, cfgVars, apiVars, chatVars, voiceVars, window_cleanup,
                sidebar>>

EngineSpeak ==
    /\ engine # "none"
    /\ engine_cleanup = "idle"
    /\ engine_log.speaks < MaxSpeaks
    /\ engine_speak
    /\ UNCHANGED engine_cleanup
    /\ EngineFrame

EngineSpeakWorker ==
    /\ \E i \in DOMAIN engine_threads : engine_speak_worker(i)
    /\ UNCHANGED <<engine_speak_thread, engine_cleanup>>
    /\ EngineFrame

EngineStopSpeaking ==
    /\ engine # "none"
    /\ engine_cleanup = "idle"
    /\ engine_stop_speaking
    /\ UNCHANGED <<engine_speak_thread, engine_cleanup>>
    /\ EngineFrame

EngineCleanup ==
    /\ engine # "none"
    /\ engine_cleanup # "done"
    /\ engine_cleanup_step
    /\ UNCHANGED engine_speak_thread
    /\ EngineFrame

NextEngine ==
    \/ EngineSpeak
    \/ EngineSpeakWorker
    \/ EngineStopSpeaking
    \/ EngineCleanup

SpecEngine == InitEngine /\ [][NextEngine]_vars

----------------------------------------------------------------------------
(* Closing: the application with a request, a dictation and a spoken reply *)
(* under way when the window is closed, or a program that cleans up its    *)
(* TTS engine.                                                             *)

InitCleanup ==
    \/ InitEngine
    \/ /\ EngineIdle
       /\ SidebarIdle
       /\ WindowOpen
       /\ init_voice_handler(TRUE, "ok", "ok")
       /\ api_client = TRUE
       /\ storage_manager = FALSE
       /\ ChatStart
       /\ StoreIdle
       /\ ConfigIdle
       /\ ApiIdle

\* the user closes the window: closeEvent calls cleanup
CloseEvent ==
    /\ WindowOpen
    /\ modal = <<>>
    /\ window_cleanup' = "chat_widget"
    /\ UNCHANGED <<storeVars, cfgVars, apiVars, chatVars, voiceVars, engineVars, sidebar>>

WindowCleanup ==
    /\ window_cleanup \in {"chat_widget", "sidebar_widget", "voice_handler",
                            "storage_manager", "children"}
    /\ window_cleanup_step
    /\ UNCHANGED <<storeVars, cfgVars, apiVars, engineVars, sidebar>>
    /\ UNCHANGED <<api_client, storage_manager, current_conversation,
                   conversation_history, is_processing, status_label, chat_display,
                   modal, workers, events, sends, speak_threads, message_input>>
    /\ UNCHANGED <<voice_handler, recognition_enabled, tts_enabled, recognizer,
                   microphone, listen_threads, voice_button_checked, voice_mode,
                   timers, failed, tts_log>>

\* the GUI thread handles nothing else once cleanup has begun
NextCleanup ==
    \/ WindowOpen /\ SendMessage
    \/ WindowOpen /\ DeliverEvent
    \/ WindowOpen /\ DismissDialog
    \/ WindowOpen /\ SetVoiceMode
    \/ WindowOpen /\ StartDictation
    \/ WorkerRun
    \/ SpeakWorker
    \/ ListenWorker
    \/ CloseEvent
    \/ WindowCleanup
    \/ EngineSpeak
    \/ EngineSpeakWorker
    \/ EngineStopSpeaking
    \/ EngineCleanup

SpecCleanup == InitCleanup /\ [][NextCleanup]_vars

\* a cleanup that has begun goes on: its thread is scheduled; the worker
\* threads may be blocked for ever
FairSpecCleanup ==
    /\ SpecCleanup
    /\ WF_vars(WindowCleanup)
    /\ WF_vars(EngineCleanup)

----------------------------------------------------------------------------
(* Sending by hand and by voice: the user types and dictates; a recognized *)
(* phrase starts a one-second timer that calls _send_message.  The timer   *)
(* is started from the listen thread: it may never fire.                   *)

InitSend ==
    /\ EngineIdle
    /\ SidebarIdle
    /\ WindowOpen
    /\ init_voice_handler(TRUE, "ok", "disabled")
    /\ api_client = TRUE
    /\ storage_manager = FALSE
    /\ ChatStart
    /\ StoreIdle
    /\ ConfigIdle
    /\ ApiIdle

\* QTimer.singleShot(1000, self._send_message) fires, also while an error
\* dialog is open: _send_message with the recognized text in the input field
AutoSend ==
    /\ timers > 0
    /\ timers' = timers - 1
    /\ Len(sends) < MaxSends + MaxTimers
    /\ IF message_input = NoText
         THEN UNCHANGED chatVars
         ELSE send_message(message_input, Len(sends) + 1)
    /\ UNCHANGED <<storeVars, cfgVars, apiVars, otherVars>>
    /\ UNCHANGED <<voice_handler, recognition_enabled, tts_enabled, recognizer,
                   microphone, tts_engine, is_listening, is_speaking, listen_threads,
                   voice_button_checked, voice_mode, failed, tts_log>>

NextSend ==
    \/ SendMessage
    \/ AutoSend
    \/ WorkerRun
    \/ DeliverEvent
    \/ DismissDialog
    \/ StartDictation
    \/ ListenWorker

SpecSend == InitSend /\ [][NextSend]_vars

----------------------------------------------------------------------------
(* The sidebar and the main window's signal connections.  An emission     *)
(* calls the connected slots one after the other in the GUI thread, in    *)
(* the order of connection; nothing else runs in the GUI thread meanwhile. *)

\* the slots MainWindow connects: _connect_signals (called by _setup_ui),
\* then _connect_component_signals; conversation_deleted and
\* conversation_renamed are connected to nothing
Connected(signal) ==
    CASE signal = "new_conversation" -> <<"_new_chat", "new_conversation">>
      [] signal = "conversation_selected" ->
           <<"_handle_conversation_selected", "load_conversation">>
      [] OTHER -> <<>>

\* signal.emit(arg): the slot calls to make
emit(signal, arg) ==
    [i \in DOMAIN Connected(signal) |-> [slot |-> Connected(signal)[i], arg |-> arg]]

\* UIUtils.run_async_task(self.storage_manager.<method>, ...) as the sidebar
\* calls it, without the parent argument: the bound method is taken for the
\* parent, and parent._async_workers = [] raises AttributeError
sidebar_run_async_task == "AttributeError"

\* MainWindow._setup_ui with the sidebar's _init_storage succeeding or not:
\* _load_conversations returns at once without a storage manager, and
\* raises out of the constructors with one
setup_ui(storage) ==
    /\ sidebar = SidebarWidget(storage)
    /\ window_cleanup =
          IF storage /\ sidebar_run_async_task # "None" THEN "none" ELSE "idle"

\* _create_new_conversation: the '+' button
create_new_conversation ==
    sidebar' = [sidebar EXCEPT !.pending = emit("new_conversation", NoId),
                               !.new_requests = @ + 1]

\* the menu action with shortcut Ctrl+N: triggered is connected to _new_chat
new_chat_action ==
    sidebar' = [sidebar EXCEPT !.pending = <<[slot |-> "_new_chat", arg |-> NoId]>>,
                               !.new_requests = @ + 1]

\* _on_conversation_selected(item) for a click on the item of conv_id
on_conversation_selected(conv_id) ==
    sidebar' = [sidebar EXCEPT !.current_conversation_id = conv_id,
                               !.pending = emit("conversation_selected", conv_id),
                               !.selected = @ + 1]

\* add_new_conversation(conversation)
add_new_conversation(conv_id) ==
    sidebar' = [sidebar EXCEPT !.list = <<conv_id>> \o @,
                               !.current_conversation_id = conv_id]

\* _delete_conversation(item) once the user has answered Yes
delete_conversation_confirmed(conv_id) ==
    LET rest == SelectSeq(sidebar.list, LAMBDA c : c # conv_id)
        removed == [sidebar EXCEPT !.list = rest, !.confirmed = @ \union {conv_id}]
    IN
    sidebar' =
        IF sidebar.storage_manager /\ sidebar_run_async_task # "None"
          THEN removed
        ELSE IF conv_id # sidebar.current_conversation_id
          THEN removed
        ELSE IF rest # <<>>
          THEN [removed EXCEPT !.current_conversation_id = Head(rest),
                               !.pending = emit("conversation_selected", Head(rest)),
                               !.selected = @ + 1]
          ELSE [removed EXCEPT !.current_conversation_id = NoId,
                               !.pending = emit("new_conversation", NoId),
                               !.new_requests = @ + 1]

\* the next slot of the emission under way is called
call_slot ==
    LET call == Head(sidebar.pending) IN
    IF call.slot \in {"_new_chat", "new_conversation"}
      THEN /\ new_conversation
           /\ sidebar' = [sidebar EXCEPT
                  !.pending = Tail(@), !.new_calls = @ + 1,
                  !.creates = @ + (IF current_conversation # NoneRec /\ storage_manager
                                     THEN 1 ELSE 0)]
      ELSE /\ load_conversation(call.arg)
           /\ sidebar' = [sidebar EXCEPT !.pending = Tail(@), !.load_calls = @ + 1]

\* the database file may hold a conversation of an earlier session
InitSidebar ==
    /\ EngineStart
    /\ engine = "none"
    /\ \E storage \in BOOLEAN : setup_ui(storage)
    /\ foreign_keys = FALSE
    /\ initialized = FALSE
    /\ conversations \in {<<>>, ConvId(0) :> [title |-> "t", message_count |-> 0]}
    /\ messages = <<>>
    /\ nextRowId = 1
    /\ held = NoneRec
    /\ ret = Ret("init", -1, "None", NoneRec)
    /\ api_client = TRUE
    /\ storage_manager \in BOOLEAN
    /\ ChatStart
    /\ VoiceIdle
    /\ ConfigIdle
    /\ ApiIdle

\* the GUI thread is free to handle the next event
GuiIdle == WindowOpen /\ modal = <<>> /\ sidebar.pending = <<>>

SidebarFrame ==
    UNCHANGED <<storeVars, cfgVars, apiVars, chatVars, voiceVars, window_cleanup,
                engineVars>>

NewButton ==
    /\ GuiIdle
    /\ sidebar.new_requests + sidebar.selected < MaxEmits
    /\ create_new_conversation
    /\ SidebarFrame

NewChatAction ==
    /\ GuiIdle
    /\ sidebar.new_requests + sidebar.selected < MaxEmits
    /\ new_chat_action
    /\ SidebarFrame

ItemClicked ==
    /\ GuiIdle
    /\ sidebar.new_requests + sidebar.selected < MaxEmits
    /\ \E i \in DOMAIN sidebar.list : on_conversation_selected(sidebar.list[i])
    /\ SidebarFrame

\* the program adds a stored conversation to the list
AddNewConversation ==
    /\ GuiIdle
    /\ \E conv_id \in DOMAIN conversations :
         /\ \A i \in DOMAIN sidebar.list : sidebar.list[i] # conv_id
         /\ conv_id \notin sidebar.confirmed
         /\ add_new_conversation(conv_id)
    /\ SidebarFrame

DeleteConfirmed ==
    /\ GuiIdle
    /\ \E i \in DOMAIN sidebar.list : delete_conversation_confirmed(sidebar.list[i])
    /\ SidebarFrame

CallSlot ==
    /\ WindowOpen
    /\ sidebar.pending # <<>>
    /\ call_slot
    /\ UNCHANGED <<storeVars, held, cfgVars, apiVars, voiceVars, window_cleanup,
                   engineVars>>

NextSidebar ==
    \/ NewButton
    \/ NewChatAction
    \/ ItemClicked
    \/ AddNewConversation
    \/ DeleteConfirmed
    \/ CallSlot
    \/ WorkerRun
    \/ sidebar.pending = <<>> /\ DeliverEvent
    \/ sidebar.pending = <<>> /\ DismissDialog

SpecSidebar == InitSidebar /\ [][NextSidebar]_vars

\* the event loop runs, the worker threads end, the user closes dialogs
FairSpecSidebar ==
    /\ SpecSidebar
    /\ WF_vars(CallSlot)
    /\ WF_vars(WorkerRun)
    /\ WF_vars(DeliverEvent)
    /\ WF_vars(DismissDialog)

----------------------------------------------------------------------------
(* Claims about the store *)

Rows == {messages[i] : i \in 1..Len(messages)}

\* C1: after delete_conversation(id) completes, no stored message has
\* conversation_id = id (the messages are cascade-deleted with the conversation).
C1_CascadeDelete ==
    (ret.op = "delete_conversation" /\ ret.exc = "None")
        => \A m \in Rows : m.conversation_id # ret.arg

\* C2: in every reachable state every stored message's conversation_id is the
\* id of an existing conversation; in particular add_message with an id that
\* names no conversation leaves no message behind.
C2_NoOrphanMessages ==
    \A m \in Rows : m.conversation_id \in DOMAIN conversations

\* C3: the persisted message_count of a conversation never decreases, whichever
\* Conversation object is passed to update_conversation.
C3_MessageCountNeverDecreases ==
    [][\A c \in (DOMAIN conversations) \cap (DOMAIN conversations') :
          conversations'[c].message_count >= conversations[c].message_count]_vars

\* C4: a message stored with add_message(c, m) is returned by get_messages(c)
\* with the same role and content and the id and timestamp add_message
\* returned, and get_messages returns the messages of c in the order they
\* were added (ascending id).
C4_RoundTripInOrder ==
    \A cid \in ConvIds :
        LET got == get_messages(cid, DefaultLimit) IN
        /\ (ret.op = "add_message" /\ ret.exc = "None" /\ ret.arg = cid)
              => \E i \in DOMAIN got :
                    /\ got[i].id = ret.value.id
                    /\ got[i].role = ret.value.role
                    /\ got[i].content = ret.value.content
                    /\ got[i].timestamp = ret.value.timestamp
        /\ \A i, j \in DOMAIN got : i < j => got[i].id < got[j].id

----------------------------------------------------------------------------
(* Claims about the configuration *)

Paths == UNION {[1..n -> TopKeys \cup SectionKeys] : n \in 1..3}
Defined(v) == v.kind # "absent"
SameValue(a, b) == a.kind = b.kind /\ a.val = b.val

\* a proper prefix of path is set by the user file to something that is no table
ReplacedWholesale(user, path) ==
    \E n \in 1..(Len(path) - 1) :
        LET v == get(user, SubSeq(path, 1, n)) IN Defined(v) /\ ~IsTable(v)

\* C5: after load_config succeeds, every key path holds the user file's value
\* when the user file defines it and the default's value otherwise; sections
\* that are tables in both documents are merged key by key, and a user value
\* replaces a default of a different shape wholesale.
C5_UserOverridesDefault ==
    loaded = "True" =>
        \A path \in Paths :
            LET u == get(config_file.doc, path)
                d == get(default_config, path)
                m == get(config, path)
            IN  IF Defined(u)
                  THEN IF IsTable(u) /\ Defined(d) /\ IsTable(d)
                         THEN IsTable(m)
                              /\ DOMAIN m.val = (DOMAIN u.val) \cup (DOMAIN d.val)
                         ELSE SameValue(m, u)
                ELSE IF Defined(d) /\ ~ReplacedWholesale(config_file.doc, path)
                  THEN SameValue(m, d)
                  ELSE ~Defined(m)

\* C5 witness: a load that merged a user section into a default section with
\* a key the user overrides and a key only the default has
C5_Witness ==
    /\ loaded = "True"
    /\ \E k \in TopKeys, i, j \in SectionKeys :
        /\ Defined(get(config_file.doc, <<k, i>>))
        /\ Defined(get(default_config, <<k, i>>))
        /\ get(config_file.doc, <<k, i>>) # get(default_config, <<k, i>>)
        /\ ~Defined(get(config_file.doc, <<k, j>>))
        /\ Defined(get(default_config, <<k, j>>))
        /\ get(config, <<k, j>>) = get(default_config, <<k, j>>)
        /\ get(config, <<k, i>>) = get(config_file.doc, <<k, i>>)

----------------------------------------------------------------------------
(* Claims about the chat widget *)

\* nothing is running, queued or waiting for the user
Quiescent == workers = <<>> /\ events = <<>> /\ modal = <<>>

StoredAs(role, content) == \E m \in Rows : m.role = role /\ m.content = content

\* C6: for every send the widget accepts while a storage manager is
\* available, whatever the widget's state at the time (just started, after
\* new_conversation, after load_conversation), the user message and the AI
\* reply received for it are in the store once every task of the widget has
\* ended and its signals are handled.
C6_HistoryPersisted ==
    (storage_manager /\ Quiescent) =>
        \A n \in DOMAIN sends :
            /\ StoredAs("user", n)
            /\ sends[n].response > 0 => StoredAs("assistant", sends[n].reply)

Callbacks(n) == sends[n].response + sends[n].error

----------------------------------------------------------------------------
(* Claims about speech *)

\* C7: while a listen_worker is blocked in recognizer.listen, whatever
\* start_listening and stop_listening calls are made, no second listen_worker
\* thread is running: the _is_listening guard admits one microphone session.
C7_OneListenWorker ==
    (\E i \in DOMAIN listen_threads : listen_threads[i] = "listen")
        => Len(listen_threads) <= 1

\* C8: once recognition or TTS initialization has failed the voice button is
\* disabled, once TTS playback has failed the handler no longer speaks with
\* the engine that failed (it has no secondary engine to fall back to), and
\* the send button and the input field are enabled whenever no request is
\* being processed and no dialog is open.
C8_FailureDisablesVoice ==
    /\ (failed \cap {"recognition_init", "tts_init"} # {}) => ~voice_button_enabled
    /\ ("tts_playback" \in failed) => ~(tts_enabled /\ tts_engine)
    /\ (~is_processing /\ modal = <<>>) => (send_enabled /\ input_enabled)

----------------------------------------------------------------------------
(* Claims about the API client *)

\* the failures the claim lists: transport error or timeout, a status other
\* than 200, a body that is no JSON object or lacks choices[0], its message,
\* the message's content key, or model
RequestFails(r) ==
    \/ r.transport # "ok"
    \/ r.status # 200
    \/ r.json # "object"
    \/ r.choices # "list"
    \/ r.choice # "object"
    \/ r.message # "object"
    \/ r.content = "absent"
    \/ r.model = "absent"

\* C9: every failure of chat_completion reaches the caller as APIClientError
\* and as no other exception type; a call that does not fail returns a
\* ChatResponse carrying content, model, usage and finish_reason.
C9_OnlyAPIClientError ==
    api_result # Raise("not_called") =>
        IF RequestFails(api_request)
          THEN api_result.exc = "APIClientError"
          ELSE /\ api_result.exc = "None"
               /\ api_result.content = (IF api_request.content = "null" THEN "None" ELSE "text")
               /\ api_result.model = "model"
               /\ api_result.usage \in {"usage", "{}"}
               /\ api_result.finish_reason \in {"stop", "unknown"}

\* C9 witness: a 200 answer whose message is no object (TypeError inside the
\* parser) was turned into APIClientError
C9_Witness ==
    /\ api_request.transport = "ok" /\ api_request.status = 200
    /\ api_request.json = "object" /\ api_request.choices = "list"
    /\ api_request.choice = "object" /\ api_request.message = "nonobject"
    /\ api_result.exc = "APIClientError"

----------------------------------------------------------------------------
(* Claims about storage failures during a chat *)

\* the GUI thread delivers the signal at the head of the queue to slot
Delivers(slot) ==
    /\ events # <<>>
    /\ Head(events).slot = slot
    /\ events' = Tail(events)

\* the request of send n is started, or its reply or error arrives
Accepted(n) == n \notin DOMAIN sends /\ n \in DOMAIN sends'
Replied(n) == n \in DOMAIN sends /\ sends'[n].response > sends[n].response

\* C11: a storage failure while saving a user or AI message is only logged:
\* the handler of the error changes nothing of the widget; every accepted send
\* still starts its chat_completion request; the reply, when it arrives, is
\* displayed and appended to conversation_history; and after a failed save
\* the send still gets its one callback and is_processing returns to False.
C11_StorageFailureOnlyLogged ==
    /\ [][Delivers("on_storage_error") =>
             UNCHANGED <<current_conversation, conversation_history, uiVars,
                         chat_display, modal, workers>>]_vars
    /\ [][\A n \in 1..MaxSends :
             (Accepted(n) /\ sends'[n].requested) =>
                 \E i \in DOMAIN workers' :
                     workers'[i].func = "chat_completion" /\ workers'[i].send = n]_vars
    /\ [][\A n \in 1..MaxSends :
             Replied(n) =>
                 /\ conversation_history' # <<>>
                 /\ conversation_history'[Len(conversation_history')]
                        = ChatMessage("assistant", sends'[n].reply)
                 /\ chat_display' # <<>>
                 /\ chat_display'[Len(chat_display')] = Shown("assistant", sends'[n].reply)]_vars
    /\ \A n \in 1..MaxSends :
          (n \in DOMAIN sends /\ sends[n].storage_errors > 0)
              ~> (n \in DOMAIN sends /\ Callbacks(n) = 1 /\ ~is_processing)

\* both saves of a send failed, its reply is on display and in the history,
\* and the widget is idle again
C11_Witness ==
    \E n \in DOMAIN sends :
        /\ sends[n].storage_errors = 2
        /\ sends[n].response = 1
        /\ ~is_processing /\ send_enabled /\ input_enabled
        /\ \E i \in DOMAIN chat_display : chat_display[i] = Shown("assistant", sends[n].reply)
        /\ \E i \in DOMAIN conversation_history :
               conversation_history[i] = ChatMessage("assistant", sends[n].reply)
        /\ ~StoredAs("user", n)

----------------------------------------------------------------------------
(* Claims about retries *)

\* the tasks of send n that call func and are running, and their error
\* signals that are queued
Running(func, n) ==
    Cardinality({i \in DOMAIN workers : workers[i].func = func /\ workers[i].send = n})
Failing(func, n) ==
    Cardinality({i \in DOMAIN events :
                    /\ events[i].worker.func = func
                    /\ events[i].worker.send = n
                    /\ events[i].signal = "error"})
Answering(n) ==
    Cardinality({i \in DOMAIN events :
                    /\ events[i].worker.func = "chat_completion"
                    /\ events[i].worker.send = n})

\* chat_completion calls made for send n so far: running, signalled, handled
ChatRequests(n) == Running("chat_completion", n) + Answering(n) + Callbacks(n)

\* add_message calls made for send n so far: running, failed (signalled or
\* handled), or done (the row is in the table)
Saves(n) ==
    Running("add_message", n) + Failing("add_message", n) + sends[n].storage_errors
        + Cardinality({i \in DOMAIN messages : messages[i].content = n})

\* one chat_completion call per accepted send, and one add_message call for
\* the user message and one for the reply: no call is made again
OneAttempt ==
    \A n \in DOMAIN sends :
        /\ sends[n].requested => ChatRequests(n) = 1
        /\ Saves(n) <= 1 + sends[n].response

InRecognition(pc) == \E i \in DOMAIN listen_threads : listen_threads[i] = pc

----------------------------------------------------------------------------
(* Claims about cleanup *)

\* C13: cleanup always terminates: MainWindow.cleanup (with ChatWidget.cleanup
\* and VoiceHandler.cleanup) and the engine's cleanup, once begun, complete,
\* whether or not the worker threads ever move again.
C13_CleanupTerminates ==
    /\ (window_cleanup = "chat_widget") ~> (window_cleanup = "done")
    /\ (engine_cleanup = "join") ~> (engine_cleanup = "done")

\* the window's cleanup is done while an API request and a dictation are
\* still under way
C13_Witness ==
    /\ window_cleanup = "done"
    /\ \E i \in DOMAIN workers : workers[i].func = "chat_completion"
    /\ \E i \in DOMAIN listen_threads : listen_threads[i] = "listen"

----------------------------------------------------------------------------
(* Claims about the streamed response *)

\* the lines received: those before the connection broke, if it did
RECURSIVE Received(_)
Received(lines) ==
    IF lines = <<>> \/ Head(lines).kind = "dropped" THEN <<>>
    ELSE <<Head(lines)>> \o Received(Tail(lines))

\* the lines before the first data: [DONE]
RECURSIVE BeforeDone(_)
BeforeDone(lines) ==
    IF lines = <<>> \/ Head(lines).kind = "done" THEN <<>>
    ELSE <<Head(lines)>> \o BeforeDone(Tail(lines))

\* the non-empty delta.content strings of lines, in order
DeltaContents(lines) ==
    LET texts == SelectSeq(lines, LAMBDA line : line.kind = "text")
    IN  [i \in DOMAIN texts |-> texts[i].content]

\* C14: chat_completion_stream yields, in order, exactly the non-empty
\* delta.content strings of the data lines received before the first
\* data: [DONE]; other lines yield nothing and do not end the stream.
C14_StreamYieldsContents ==
    (api_result.exc # "not_called" /\ api_request.status = 200) =>
        api_result.yielded = DeltaContents(BeforeDone(Received(api_request.lines)))

----------------------------------------------------------------------------
(* Claims about the conversation a reply goes to *)

\* the conversation that was current when send n was accepted
SentIn(n) == sends[n].conversation

\* C15: the AI reply is appended to the history of, and stored in, the
\* conversation of the user message that prompted it: every add_message task
\* of a send, and the stored reply, carry the id of the conversation that was
\* current when the message was sent, whatever was opened or created since.
C15_ReplyInSameConversation ==
    \A n \in DOMAIN sends :
        SentIn(n) # NoneRec =>
            /\ \A i \in DOMAIN workers :
                   (workers[i].func = "add_message" /\ workers[i].send = n)
                       => workers[i].args.conversation_id = SentIn(n).id
            /\ \A row \in Rows :
                   (row.role = "assistant" /\ row.content = sends[n].reply
                        /\ sends[n].response > 0)
                       => row.conversation_id = SentIn(n).id

----------------------------------------------------------------------------
(* Claims about the TTS engines *)

\* C16: at most one TTS playback worker per engine is active at any time: a
\* speak call made while an utterance is being spoken, or right after
\* another speak whose worker has not started running, starts no second
\* worker.
C16_OnePlaybackWorker ==
    /\ Len(engine_threads) <= 1
    /\ Len(speak_threads) <= 1

\* C17: after FishAudioEngine.stop_speaking is called during playback, no
\* further playback process is started for that utterance, and is_speaking
\* remains False until the next speak call.
C17_StoppedStaysStopped ==
    engine = "fish" =>
        /\ \A i \in DOMAIN engine_threads :
               ~(engine_threads[i].stopped /\ engine_threads[i].process = "running")
        /\ engine_log.stopped => ~engine_is_speaking

\* C18: every speak that starts a worker resets is_speaking to False, and
\* every on_tts_started is followed by exactly one on_tts_finished, whether
\* playback succeeds or raises: once the workers have ended the flag is False
\* and the two callbacks have been made equally often (VoiceHandler and the
\* engines alike).
C18_SpeakingEnds ==
    /\ tts_log.finished <= tts_log.started
    /\ engine_log.finished <= engine_log.started
    /\ speak_threads = <<>> =>
           (~is_speaking /\ tts_log.finished = tts_log.started)
    /\ engine_threads = <<>> =>
           (~engine_is_speaking /\ engine_log.finished = engine_log.started)

----------------------------------------------------------------------------
(* Claims about listening *)

\* C19: whenever VoiceHandler.is_listening is True a listen worker thread is
\* running: when the worker exits, for whatever reason, is_listening becomes
\* False.
C19_ListeningHasWorker ==
    is_listening => listen_threads # <<>>

----------------------------------------------------------------------------
(* Claims about requests in flight *)

\* chat_completion requests whose reply has not been handled yet
InFlight ==
    Cardinality({i \in DOMAIN workers : workers[i].func = "chat_completion"})
        + Cardinality({i \in DOMAIN events : events[i].worker.func = "chat_completion"})

\* the user messages on display, and those in the history
UserShown == SelectSeq(chat_display, LAMBDA m : m.sender = "user")
UserSaid == SelectSeq(conversation_history, LAMBDA m : m.role = "user")

\* C20: at most one chat-completion request is in flight at any time, and
\* while is_processing is True no step (Enter, the send button, the voice
\* auto-send timer) accepts a send: no request is issued, no user message is
\* displayed and none is added to conversation_history.
C20_OneRequestInFlight ==
    /\ [](InFlight <= 1)
    /\ [](InFlight = 1 => is_processing)
    /\ [][is_processing =>
             /\ Len(sends') = Len(sends)
             /\ InFlight' <= InFlight
             /\ UserShown' = UserShown
             /\ UserSaid' = UserSaid]_vars

\* the auto-send timer fired while a request was in flight and sent nothing:
\* the recognized text is still in the input field
C20_Witness ==
    /\ is_processing
    /\ InFlight = 1
    /\ Len(sends) = 1
    /\ timers = 0
    /\ message_input = RecognizedText

----------------------------------------------------------------------------
(* Claims about the playback methods *)

\* C24: a FishAudioEngine playback that got to try a method ends with the
\* first method that succeeds or after all three have failed, whatever the
\* failures are (non-zero exit, timeout, missing executable); "all playback
\* methods failed" is reported only after three were tried; no temporary
\* file is left when no worker is running.
C24_EveryMethodTried ==
    /\ engine_log.last.tried > 0 =>
          (engine_log.last.outcome = "ok" \/ engine_log.last.tried = 3)
    /\ engine_log.last.all_failed => engine_log.last.tried = 3
    /\ engine_threads = <<>> => engine_log.tmp_files = 0

----------------------------------------------------------------------------
(* Claims about message counts *)

\* C22: each conversation's persisted message_count is the number of
\* messages stored for it, whatever create_conversation, add_message,
\* update_conversation and import_conversation calls were made.
C22_CountIsNumberOfMessages ==
    \A c \in DOMAIN conversations :
        conversations[c].message_count
            = Len(SelectSeq(messages, LAMBDA m : m.conversation_id = c))

----------------------------------------------------------------------------
(* Claims about the sidebar *)

\* C21: each sidebar emission is handled once by the chat widget: the
\* calls of new_conversation, and the create_conversation tasks they start,
\* never outnumber the new-conversation requests ('+' or Ctrl+N), and once
\* an emission's slots have run there is one load_conversation call per
\* selection.
C21_HandledOnce ==
    /\ sidebar.new_calls <= sidebar.new_requests
    /\ sidebar.creates <= sidebar.new_requests
    /\ sidebar.pending = <<>> => sidebar.load_calls = sidebar.selected

\* C23: a confirmed deletion leads to the conversation being gone from the
\* store and conversation_deleted(id) emitted, and once nothing is under
\* way the conversation is in the list exactly if it is in the store.
C23_DeletionReachesStore ==
    /\ \A id \in ConvIds :
         (id \in sidebar.confirmed)
             ~> (id \notin DOMAIN conversations /\ id \in sidebar.deleted)
    /\ [](\A id \in sidebar.confirmed :
            (workers = <<>> /\ events = <<>> /\ sidebar.pending = <<>>)
                => ((\E i \in DOMAIN sidebar.list : sidebar.list[i] = id)
                       <=> id \in DOMAIN conversations))

====
